---- MODULE Spec2Model ----
(***************************************************************************)
(* A model of LOSH-krawler: the OSHWA normalizer                           *)
(* (src/krawl/normalizer/oshwa.py), the document deserializers and the RDF *)
(* serializer (src/krawl/serializer), the fetcher state storage            *)
(* (src/krawl/storage) and the rate limiters (src/krawl/request).          *)
(*                                                                         *)
(* Strings whose characters the code inspects (paths, extensions, version  *)
(* strings) are tuples of one-character strings, so that upper(), lower(), *)
(* replace(), Path.stem, Path.suffix and urllib.parse.quote are computed   *)
(* character by character.  Opaque strings are TLA+ strings.               *)
(***************************************************************************)
EXTENDS Integers, Sequences, FiniteSets, TLC

VARIABLES
    pc,        \* position of the running operation
    files,     \* _normalize_parts: the argument, a list of File
    filtered,  \* _normalize_parts: local `filtered`
    buckets,   \* _normalize_parts: local `buckets`, in dict insertion order
    bi,        \* _normalize_parts: how many buckets the loop has taken
    parts,     \* _normalize_parts: local `parts`, the value returned
    obj,       \* _get_key: the argument `obj`
    key,       \* _get_key: the arguments `*key`
    default,   \* _get_key: the argument `default`
    raw,       \* normalize: the argument `raw`
    result,    \* the value the running operation returned or the exception it raised
    deserializer,     \* deserialize: which deserializer class is called
    serialized,       \* deserialize: the argument `serialized`
    enrich,           \* deserialize: the argument `enrich`
    normalize_calls,  \* deserialize: how often normalizer.normalize was called
    project,   \* _make_graph: the argument `project`
    graph,     \* _make_graph: the triples added to the graph
    disk,      \* FetcherStateStorageFile: the files below base_path/__fetcher__
    stored,    \* history: per fetcher, the state of the last store since the last delete
    op,        \* FetcherStateStorageFile: the last call made
    limiter,   \* rate limiters: the fields of the two limiter objects
    now,       \* rate limiters: datetime.now(timezone.utc), in seconds
    call       \* rate limiters: the apply call in progress or last returned

partsVars == <<files, filtered, buckets, bi, parts>>
getKeyVars == <<obj, key, default>>
desVars == <<deserializer, serialized, enrich, normalize_calls>>
rdfVars == <<project, graph>>
storageVars == <<disk, stored, op>>
limiterVars == <<limiter, now, call>>
ioVars == <<desVars, rdfVars, storageVars, limiterVars>>
vars == <<pc, files, filtered, buckets, bi, parts, obj, key, default, raw, result,
          deserializer, serialized, enrich, normalize_calls, project, graph,
          disk, stored, op, limiter, now, call>>

(***************************************************************************)
(* Bounds                                                                  *)
(***************************************************************************)
MaxFiles == 3
MaxTime == 4       \* the clock stops at this second
MaxQuota == 2      \* the largest num_requests recorded
MaxInterval == 2   \* the longest fixed interval, in seconds

(***************************************************************************)
(* Characters and str methods                                              *)
(***************************************************************************)
LowerLetters == <<"a","b","c","d","e","f","g","h","i","j","k","l","m",
                  "n","o","p","q","r","s","t","u","v","w","x","y","z">>
UpperLetters == <<"A","B","C","D","E","F","G","H","I","J","K","L","M",
                  "N","O","P","Q","R","S","T","U","V","W","X","Y","Z">>

\* the upper-case letter of each lower-case letter, and the reverse
ToUpper ==
    [c \in {LowerLetters[i] : i \in 1..26} |->
        UpperLetters[CHOOSE i \in 1..26 : LowerLetters[i] = c]]

ToLower ==
    [c \in {UpperLetters[i] : i \in 1..26} |->
        LowerLetters[CHOOSE i \in 1..26 : UpperLetters[i] = c]]

UpperChar(c) == IF c \in DOMAIN ToUpper THEN ToUpper[c] ELSE c

LowerChar(c) == IF c \in DOMAIN ToLower THEN ToLower[c] ELSE c

\* str.upper()
Upper(s) == [i \in 1..Len(s) |-> UpperChar(s[i])]

\* str.lower()
Lower(s) == [i \in 1..Len(s) |-> LowerChar(s[i])]

\* str.replace(old, new) for one-character old and new
Replace(s, old, new) == [i \in 1..Len(s) |-> IF s[i] = old THEN new ELSE s[i]]

\* str.rfind(c) for a one-character c, 1-based; 0 when c does not occur
RFind(s, c) ==
    IF \E i \in 1..Len(s) : s[i] = c
    THEN CHOOSE i \in 1..Len(s) : s[i] = c /\ \A j \in (i+1)..Len(s) : s[j] # c
    ELSE 0

(***************************************************************************)
(* pathlib.PurePath: name, suffix, stem, with_suffix("")                   *)
(***************************************************************************)
\* PurePath.name: the final path component
PathName(p) == SubSeq(p, RFind(p, "/") + 1, Len(p))

\* PurePath.suffix: the last dot of the name starts the suffix unless it is
\* the first or the last character of the name
PathSuffix(p) ==
    LET name == PathName(p)
        i    == RFind(name, ".")
    IN  IF 1 < i /\ i < Len(name) THEN SubSeq(name, i, Len(name)) ELSE <<>>

\* PurePath.stem
PathStem(p) ==
    LET name == PathName(p)
    IN  SubSeq(name, 1, Len(name) - Len(PathSuffix(p)))

\* str(PurePath.with_suffix(""))
WithSuffixEmpty(p) == SubSeq(p, 1, Len(p) - Len(PathSuffix(p)))

(***************************************************************************)
(* Python None for a File-valued or Path-valued slot                       *)
(***************************************************************************)
NoPath == [isNone |-> TRUE, str |-> <<>>]
SomePath(s) == [isNone |-> FALSE, str |-> s]
NoFile == [id |-> 0, path |-> NoPath, name |-> <<>>, license |-> "", licensor |-> ""]

(***************************************************************************)
(* Python values of the loosely-typed metadata tree: None, int, str, list  *)
(* and dict, plus the License and datetime objects normalize produces.     *)
(* Every value is a record of one shape; `t` is its type, `n` the number   *)
(* of an int, `s` the characters of a str (or the id of a License, the ISO *)
(* text of a datetime), `l` the items of a list, `d` the dict as a         *)
(* function on its keys.                                                   *)
(***************************************************************************)
PyNone     == [t |-> "NoneType", n |-> 0, s |-> <<>>, l |-> <<>>, d |-> <<>>]
PyInt(n)   == [t |-> "int",      n |-> n, s |-> <<>>, l |-> <<>>, d |-> <<>>]
PyStr(s)   == [t |-> "str",      n |-> 0, s |-> s,    l |-> <<>>, d |-> <<>>]
PyList(l)  == [t |-> "list",     n |-> 0, s |-> <<>>, l |-> l,    d |-> <<>>]
PyDict(d)  == [t |-> "dict",     n |-> 0, s |-> <<>>, l |-> <<>>, d |-> d]
PyBool(b)  == [t |-> "bool",     n |-> IF b THEN 1 ELSE 0, s |-> <<>>, l |-> <<>>, d |-> <<>>]

\* bool(v)
Truthy(v) ==
    CASE v.t = "NoneType" -> FALSE
      [] v.t = "int"      -> v.n # 0
      [] v.t = "bool"     -> v.n # 0
      [] v.t = "str"      -> Len(v.s) > 0
      [] v.t = "list"     -> Len(v.l) > 0
      [] v.t = "dict"     -> DOMAIN v.d # {}
      [] OTHER            -> TRUE

\* what a call gives: the value returned, or the exception raised
Return(v)  == [kind |-> "return", value |-> v, exc |-> ""]
Raise(exc) == [kind |-> "raise", value |-> PyNone, exc |-> exc]
NoResult   == [kind |-> "none", value |-> PyNone, exc |-> ""]

\* the variables of an operation that is not the one under study
PartsIdle ==
    files = <<>> /\ filtered = <<>> /\ buckets = <<>> /\ bi = 0 /\ parts = <<>>
GetKeyIdle == obj = PyNone /\ key = <<>> /\ default = PyNone
DeserializeIdle ==
    deserializer = "" /\ serialized = PyNone /\ enrich = PyNone /\ normalize_calls = 0
RdfIdle == project = PyNone /\ graph = {}
StorageIdle == disk = <<>> /\ stored = <<>> /\ op = <<>>
LimiterIdle == limiter = <<>> /\ now = 0 /\ call = <<>>
IoIdle == DeserializeIdle /\ RdfIdle /\ StorageIdle /\ LimiterIdle

(***************************************************************************)
(* The texts of the code and of the sample record                          *)
(***************************************************************************)
\* "0.1.0"
DefaultVersion == <<"0",".","1",".","0">>

\* "1970-01-01 00:00:00"
EpochText == <<"1","9","7","0","-","0","1","-","0","1"," ","0","0",":","0","0",":","0","0">>

\* "https://certification.oshwa.org/"
RegistryUrlPrefix == <<"h","t","t","p","s",":","/","/","c","e","r","t","i","f","i","c","a","t","i","o","n",".","o","s","h","w","a",".","o","r","g","/">>

\* ".html"
HtmlSuffix == <<".","h","t","m","l">>

\* "unknown"
UnknownText == <<"u","n","k","n","o","w","n">>

\* "None"
NoneLabel == <<"N","o","n","e">>

\* "Other"
OtherLabel == <<"O","t","h","e","r">>

\* "oshwa.org"
SampleFetcher == <<"o","s","h","w","a",".","o","r","g">>

\* "arturo182"
SampleParty == <<"a","r","t","u","r","o","1","8","2">>

\* "2022-01-01"
SampleVisited == <<"2","0","2","2","-","0","1","-","0","1">>

\* "OLED PMOD"
SampleName == <<"O","L","E","D"," ","P","M","O","D">>

\* "https://x.org/"
SampleUrl == <<"h","t","t","p","s",":","/","/","x",".","o","r","g","/">>

\* "SE000004"
SampleUid == <<"S","E","0","0","0","0","0","4">>

\* "2020-05-04T00:00-04:00"
SampleCertificationDate == <<"2","0","2","0","-","0","5","-","0","4","T","0","0",":","0","0","-","0","4",":","0","0">>

\* "soon"
MalformedDate == <<"s","o","o","n">>

\* "v 1+"
SampleVersion == <<"v"," ","1","+">>

\* "CERN"
CernLabel == <<"C","E","R","N">>

\* "Unlicense"
UnmappedLabel == <<"U","n","l","i","c","e","n","s","e">>

\* " <b>Hi</b> "
SampleDescription == <<" ","<","b",">","H","i","<","/","b",">"," ">>

\* "Electronics"
ElectronicsText == <<"E","l","e","c","t","r","o","n","i","c","s">>

(***************************************************************************)
(* EXCLUDE_FILES                                                           *)
(***************************************************************************)
EXCLUDE_FILES ==
    {<<"A","C","K","N","O","W","L","E","D","G","M","E","N","T","S">>,
     <<"A","U","T","H","O","R","S">>,
     <<"C","H","A","N","G","E","L","O","G">>,
     <<"C","O","D","E","_","O","F","_","C","O","N","D","U","C","T">>,
     <<"C","O","D","E","O","W","N","E","R","S">>,
     <<"C","O","N","T","R","I","B","U","T","I","N","G">>,
     <<"C","O","N","T","R","I","B","U","T","O","R","S">>,
     <<"F","U","N","D","I","N","G">>,
     <<"I","S","S","U","E","_","T","E","M","P","L","A","T","E">>,
     <<"L","I","C","E","N","S","E">>,
     <<"P","U","L","L","_","R","E","Q","U","E","S","T","_","T","E","M","P","L","A","T","E">>,
     <<"R","E","A","D","M","E">>,
     <<"S","E","C","U","R","I","T","Y">>,
     <<"S","U","P","P","O","R","T">>,
     <<"U","S","E","R","G","U","I","D","E">>,
     <<"U","S","E","R","M","A","N","U","A","L">>}

(***************************************************************************)
(* krawl.file_formats.get_formats and krawl.project.File / Part are not    *)
(* among the sources; they are modelled from the specification: the        *)
(* registry maps an extension (with its dot, lower case) to a category     *)
(* "source" or "export", File.extension is the lower-cased suffix without  *)
(* its dot, and a new Part has no source, no image and its own empty       *)
(* export list.                                                            *)
(***************************************************************************)
cad_formats ==
    (<<".","s","t","e","p">> :> "source") @@ (<<".","s","t","l">> :> "export")

pcb_formats ==
    (<<".","b","r","d">> :> "source") @@ (<<".","g","b","r">> :> "export")

image_formats ==
    (<<".","p","n","g">> :> "image")

\* File.extension
FileExtension(file) ==
    LET suffix == PathSuffix(file.path.str)
    IN  Lower(SubSeq(suffix, 2, Len(suffix)))

\* Part()
NewPart == [source |-> NoFile, export |-> <<>>, image |-> NoFile,
            name |-> <<>>, license |-> "", licensor |-> ""]

(***************************************************************************)
(* The Files handed to _normalize_parts.  _parse_file sets path to None    *)
(* when the record has no "filename", and name to path.stem.               *)
(***************************************************************************)
\* The paths the file lists are drawn from:
\*   A.step
\*   a.STEP
\*   A.stl
\*   A.png
\*   a.PNG
\*   a.brd
\*   a.gbr
\*   B.stl
\*   README.md
\*   d/license.step
\*   code-of conduct.stl
\*   C.png
\*   d/A.step
\*   a.md
\*   None
PathPool ==
    {SomePath(<<"A",".","s","t","e","p">>),
     SomePath(<<"a",".","S","T","E","P">>),
     SomePath(<<"A",".","s","t","l">>),
     SomePath(<<"A",".","p","n","g">>),
     SomePath(<<"a",".","P","N","G">>),
     SomePath(<<"a",".","b","r","d">>),
     SomePath(<<"a",".","g","b","r">>),
     SomePath(<<"B",".","s","t","l">>),
     SomePath(<<"R","E","A","D","M","E",".","m","d">>),
     SomePath(<<"d","/","l","i","c","e","n","s","e",".","s","t","e","p">>),
     SomePath(<<"c","o","d","e","-","o","f"," ","c","o","n","d","u","c","t",".","s","t","l">>),
     SomePath(<<"C",".","p","n","g">>),
     SomePath(<<"d","/","A",".","s","t","e","p">>),
     SomePath(<<"a",".","m","d">>),
     NoPath}

\* _parse_file: the File of a record, `id` standing for the object's identity
ParseFile(id, path) ==
    [id |-> id, path |-> path,
     name |-> IF path.isNone THEN <<>> ELSE PathStem(path.str),
     license |-> "CERN-OHL-1.2", licensor |-> "arturo182"]

\* the list of Files parsed from a list of paths
ParseFiles(paths) == [i \in 1..Len(paths) |-> ParseFile(i, paths[i])]

(***************************************************************************)
(* OshwaNormalizer._normalize_parts                                        *)
(***************************************************************************)
\* ExcludeName without .upper()
ExcludeName_NoUpper(file) ==
    Replace(Replace(PathStem(file.path.str), " ", "_"), "-", "_")

\* file.path.stem.replace(" ", "_").replace("-", "_").upper()
ExcludeName(file) ==
    Upper(Replace(Replace(PathStem(file.path.str), " ", "_"), "-", "_"))

\* the test of the filter loop
IsExcluded(file) == ExcludeName(file) \in EXCLUDE_FILES

\* BucketKey without .lower()
BucketKey_CaseSensitive(file) == WithSuffixEmpty(file.path.str)

\* str(file.path.with_suffix("")).lower()
BucketKey(file) == Lower(WithSuffixEmpty(file.path.str))

\* BucketAppend on a dict that puts a new key first
BucketAppend_NewKeyFirst(bs, file) ==
    LET normalized_name == BucketKey(file)
    IN  IF \E i \in 1..Len(bs) : bs[i].key = normalized_name
        THEN [i \in 1..Len(bs) |->
                IF bs[i].key = normalized_name
                THEN [key |-> normalized_name, fl |-> Append(bs[i].fl, file)]
                ELSE bs[i]]
        ELSE <<[key |-> normalized_name, fl |-> <<file>>]>> \o bs

\* buckets[normalized_name].append(file), on a dict kept in insertion order
BucketAppend(bs, file) ==
    LET normalized_name == BucketKey(file)
    IN  IF \E i \in 1..Len(bs) : bs[i].key = normalized_name
        THEN [i \in 1..Len(bs) |->
                IF bs[i].key = normalized_name
                THEN [key |-> normalized_name, fl |-> Append(bs[i].fl, file)]
                ELSE bs[i]]
        ELSE Append(bs, [key |-> normalized_name, fl |-> <<file>>])

RECURSIVE PutInBuckets(_, _)
\* the bucket loop over the first n entries of fs
PutInBuckets(fs, n) ==
    IF n = 0 THEN <<>> ELSE BucketAppend(PutInBuckets(fs, n - 1), fs[n])

\* ClassifyFile without the `if not part.source` tests: a later source-category
\* file takes the place of the source
ClassifyFile_SourceOverwritten(part, file) ==
    LET ext == <<".">> \o FileExtension(file)
    IN  IF ext \in DOMAIN cad_formats
        THEN IF cad_formats[ext] = "source"
             THEN [part EXCEPT !.source = file]
             ELSE IF cad_formats[ext] = "export"
                  THEN [part EXCEPT !.export = Append(@, file)]
                  ELSE part
        ELSE IF ext \in DOMAIN pcb_formats
        THEN IF pcb_formats[ext] = "source"
             THEN [part EXCEPT !.source = file]
             ELSE IF pcb_formats[ext] = "export"
                  THEN [part EXCEPT !.export = Append(@, file)]
                  ELSE part
        ELSE IF ext \in DOMAIN image_formats
        THEN IF part.image = NoFile
             THEN [part EXCEPT !.image = file]
             ELSE part
        ELSE part

\* the body of `for file in fl`: one file classified into part
ClassifyFile(part, file) ==
    LET ext == <<".">> \o FileExtension(file)
    IN  IF ext \in DOMAIN cad_formats
        THEN IF cad_formats[ext] = "source"
             THEN IF part.source = NoFile
                  THEN [part EXCEPT !.source = file]
                  ELSE [part EXCEPT !.export = Append(@, file)]
             ELSE IF cad_formats[ext] = "export"
                  THEN [part EXCEPT !.export = Append(@, file)]
                  ELSE part
        ELSE IF ext \in DOMAIN pcb_formats
        THEN IF pcb_formats[ext] = "source"
             THEN IF part.source = NoFile
                  THEN [part EXCEPT !.source = file]
                  ELSE [part EXCEPT !.export = Append(@, file)]
             ELSE IF pcb_formats[ext] = "export"
                  THEN [part EXCEPT !.export = Append(@, file)]
                  ELSE part
        ELSE IF ext \in DOMAIN image_formats
        THEN IF part.image = NoFile
             THEN [part EXCEPT !.image = file]
             ELSE part
        ELSE part

RECURSIVE ClassifyFiles(_, _)
\* `for file in fl` over the first n files of fl, from a new Part
ClassifyFiles(fl, n) ==
    IF n = 0 THEN NewPart ELSE ClassifyFile(ClassifyFiles(fl, n - 1), fl[n])

\* Promote with part.export.pop() for part.export.pop(0)
Promote_PopLast(part) ==
    IF part.source = NoFile /\ Len(part.export) > 0
    THEN [part EXCEPT !.source = part.export[Len(part.export)],
                      !.export = SubSeq(part.export, 1, Len(part.export) - 1)]
    ELSE part

\* Promote with part.export[0] for part.export.pop(0)
Promote_KeepsExport(part) ==
    IF part.source = NoFile /\ Len(part.export) > 0
    THEN [part EXCEPT !.source = part.export[1]]
    ELSE part

\* if not part.source and part.export: part.source = part.export.pop(0)
Promote(part) ==
    IF part.source = NoFile /\ Len(part.export) > 0
    THEN [part EXCEPT !.source = part.export[1], !.export = Tail(part.export)]
    ELSE part

\* Emit without the `if part.source` test
Emit_Always(ps, part) ==
    Append(ps, [part EXCEPT !.name = part.source.name,
                            !.license = part.source.license,
                            !.licensor = part.source.licensor])

\* if part.source: name, license and licensor copied, part appended
Emit(ps, part) ==
    IF part.source # NoFile
    THEN Append(ps, [part EXCEPT !.name = part.source.name,
                                 !.license = part.source.license,
                                 !.licensor = part.source.licensor])
    ELSE ps

\* The filter loop.  file.path.stem of a File without a path raises
\* AttributeError, and _normalize_parts ends with it.
FilterFiles ==
    /\ pc = "filter"
    /\ IF \E i \in 1..Len(files) : files[i].path.isNone
       THEN /\ pc' = "error"
            /\ UNCHANGED filtered
       ELSE /\ filtered' = SelectSeq(files, LAMBDA f : ~IsExcluded(f))
            /\ pc' = "bucket"
    /\ UNCHANGED <<files, buckets, bi, parts, getKeyVars, raw, result, ioVars>>

\* The bucket loop.
FillBuckets ==
    /\ pc = "bucket"
    /\ buckets' = PutInBuckets(filtered, Len(filtered))
    /\ pc' = "classify"
    /\ UNCHANGED <<files, filtered, bi, parts, getKeyVars, raw, result, ioVars>>

\* One round of `for fl in buckets.values()`.
NormalizeBucket ==
    /\ pc = "classify"
    /\ bi < Len(buckets)
    /\ LET fl == buckets[bi + 1].fl
       IN  parts' = Emit(parts, Promote(ClassifyFiles(fl, Len(fl))))
    /\ bi' = bi + 1
    /\ UNCHANGED <<pc, files, filtered, buckets, getKeyVars, raw, result, ioVars>>

\* return parts
ReturnParts ==
    /\ pc = "classify"
    /\ bi = Len(buckets)
    /\ pc' = "done"
    /\ UNCHANGED <<files, filtered, buckets, bi, parts, getKeyVars, raw, result, ioVars>>

InitParts ==
    /\ pc = "filter"
    /\ \E n \in 0..MaxFiles : \E paths \in [1..n -> PathPool] : files = ParseFiles(paths)
    /\ filtered = <<>>
    /\ buckets = <<>>
    /\ bi = 0
    /\ parts = <<>>
    /\ obj = PyNone /\ key = <<>> /\ default = PyNone
    /\ raw = PyNone
    /\ result = NoResult
    /\ IoIdle

NextParts ==
    \/ FilterFiles
    \/ FillBuckets
    \/ NormalizeBucket
    \/ ReturnParts

SpecParts == InitParts /\ [][NextParts]_vars

(***************************************************************************)
(* Vocabulary of the claims about _normalize_parts.  These definitions     *)
(* restate the specification's terms over the input list `files`; they do  *)
(* not use the operators of the algorithm above.                           *)
(***************************************************************************)
Range(s) == {s[i] : i \in 1..Len(s)}

PartsDone == pc = "done"

\* the registry key of a file: "." + extension
RegistryExt(f) == <<".">> \o FileExtension(f)

\* the file's extension is in the CAD or PCB registry
IsDesignFile(f) == RegistryExt(f) \in (DOMAIN cad_formats \cup DOMAIN pcb_formats)

\* the registry category of a CAD or PCB file is `cat`
HasCategory(f, cat) ==
    \/ RegistryExt(f) \in DOMAIN cad_formats /\ cad_formats[RegistryExt(f)] = cat
    \/ /\ RegistryExt(f) \notin DOMAIN cad_formats
       /\ RegistryExt(f) \in DOMAIN pcb_formats
       /\ pcb_formats[RegistryExt(f)] = cat

IsSourceFile(f) == HasCategory(f, "source")

\* an image-format file that is no CAD or PCB file
IsImageFile(f) == ~IsDesignFile(f) /\ RegistryExt(f) \in DOMAIN image_formats

\* base name, upper-cased, spaces and hyphens replaced by underscores
AdminName(f) == Upper(Replace(Replace(PathStem(f.path.str), "-", "_"), " ", "_"))

IsAdminFile(f) == AdminName(f) \in EXCLUDE_FILES

\* the path with its extension stripped, lower-cased
StrippedLower(f) == Lower(WithSuffixEmpty(f.path.str))

\* the files of the input that are no administrative documents and whose
\* stripped, lower-cased path is k, in input order
BucketOf(k) == SelectSeq(files, LAMBDA f : ~IsAdminFile(f) /\ StrippedLower(f) = k)

\* the stripped, lower-cased paths of the files that pass the exclusion filter
BucketKeys == {StrippedLower(files[i]) : i \in {j \in 1..Len(files) : ~IsAdminFile(files[j])}}

\* the files a Part holds
SlotFiles(p) ==
    {p.source} \cup Range(p.export) \cup (IF p.image = NoFile THEN {} ELSE {p.image})

\* the paths of the input list
InputPaths == [i \in 1..Len(files) |-> files[i].path.str]

(***************************************************************************)
(* C1.  Every Part returned has a source, and a bucket yields a Part       *)
(* exactly when it holds a file whose extension is in the CAD or PCB       *)
(* registry: a bucket of images or unrecognized extensions yields none.    *)
(***************************************************************************)
C1_EmitOnlyWithSource ==
    PartsDone =>
        /\ \A i \in 1..Len(parts) : parts[i].source # NoFile
        /\ \A i \in 1..Len(parts) : parts[i].source \in Range(files)
        /\ \A b \in Range(buckets) :
             (\E i \in 1..Len(parts) : parts[i].source \in Range(b.fl))
                <=> (\E f \in Range(b.fl) : IsDesignFile(f))
        /\ Len(parts) =
             Cardinality({b \in Range(buckets) : \E f \in Range(b.fl) : IsDesignFile(f)})

\* a run that emits a Part for one bucket and drops an image-only bucket
C1_Witness ==
    /\ PartsDone
    /\ Len(parts) = 1
    /\ \E b \in Range(buckets) :
         /\ \A f \in Range(b.fl) : IsImageFile(f)
         /\ \A i \in 1..Len(parts) : parts[i].source \notin Range(b.fl)

(***************************************************************************)
(* C2.  In a bucket that holds a source-category file, the first such file *)
(* in input order is the Part's source, whatever its domain; every other   *)
(* CAD or PCB file of the bucket is in export; and no error is raised      *)
(* (the only error of the operation is a File without a path).  The files  *)
(* A.step, A.stl, A.png give source A.step, export [A.stl], image A.png.   *)
(***************************************************************************)
C2_FirstSourceWins ==
    /\ pc = "error" => \E i \in 1..Len(files) : files[i].path.isNone
    /\ PartsDone =>
        /\ \A k \in BucketKeys :
             LET designs == SelectSeq(BucketOf(k), IsDesignFile)
                 srcs    == SelectSeq(BucketOf(k), IsSourceFile)
             IN  Len(srcs) > 0 =>
                   \E i \in 1..Len(parts) :
                      /\ parts[i].source = srcs[1]
                      /\ parts[i].export = SelectSeq(designs, LAMBDA f : f # srcs[1])
        /\ InputPaths = <<<<"A",".","s","t","e","p">>, <<"A",".","s","t","l">>, <<"A",".","p","n","g">>>> =>
             /\ Len(parts) = 1
             /\ parts[1].source = files[1]
             /\ parts[1].export = <<files[2]>>
             /\ parts[1].image = files[3]

\* a Part whose export holds a later source-category file of another domain
C2_Witness ==
    /\ PartsDone
    /\ \E i \in 1..Len(parts) :
         /\ RegistryExt(parts[i].source) \in DOMAIN pcb_formats
         /\ \E f \in Range(parts[i].export) :
              IsSourceFile(f) /\ RegistryExt(f) \in DOMAIN cad_formats
         /\ \E f \in Range(parts[i].export) : HasCategory(f, "export")

(***************************************************************************)
(* C3.  In a bucket that holds no source-category file but an              *)
(* export-category file, the first export-category file in input order is  *)
(* the Part's source and is not in export, which holds the others in       *)
(* order.  The single file B.stl gives source B.stl and export [].         *)
(***************************************************************************)
C3_SourcePromotion ==
    PartsDone =>
        /\ \A k \in BucketKeys :
             LET designs == SelectSeq(BucketOf(k), IsDesignFile)
                 srcs    == SelectSeq(BucketOf(k), IsSourceFile)
             IN  (Len(srcs) = 0 /\ Len(designs) > 0) =>
                   \E i \in 1..Len(parts) :
                      /\ parts[i].source = designs[1]
                      /\ parts[i].export = Tail(designs)
        /\ InputPaths = <<<<"B",".","s","t","l">>>> =>
             /\ Len(parts) = 1
             /\ parts[1].source = files[1]
             /\ parts[1].export = <<>>

\* a Part whose source was promoted while another export stays behind
C3_Witness ==
    /\ PartsDone
    /\ \E i \in 1..Len(parts) :
         /\ HasCategory(parts[i].source, "export")
         /\ Len(parts[i].export) > 0

\* the position in the input list of the first file of the bucket of key k
FirstOfBucket(k) == BucketOf(k)[1].id

(***************************************************************************)
(* C4.  Within each Part, export lists its files in input order; the Parts *)
(* are emitted in the order in which the first file of each bucket         *)
(* appears in the input list.                                              *)
(***************************************************************************)
C4_StableOrder ==
    PartsDone =>
        /\ \A i \in 1..Len(parts) :
             \A m, n \in 1..Len(parts[i].export) :
                m < n => parts[i].export[m].id < parts[i].export[n].id
        /\ \A i, j \in 1..Len(parts) :
             i < j => FirstOfBucket(StrippedLower(parts[i].source))
                        < FirstOfBucket(StrippedLower(parts[j].source))

\* two Parts whose buckets interleave in the input, the first with an export
\* that comes after the other bucket's file
C4_Witness ==
    /\ PartsDone
    /\ Len(parts) = 2
    /\ Len(parts[1].export) > 0
    /\ parts[2].source.id < parts[1].export[1].id

(***************************************************************************)
(* C5.  A file whose base name, upper-cased with spaces and hyphens        *)
(* replaced by underscores, is one of EXCLUDE_FILES is never the source,   *)
(* an export or the image of a Part, whatever its extension.  The files    *)
(* README.md, C.png give no Part.                                          *)
(***************************************************************************)
C5_AdminFilesExcluded ==
    PartsDone =>
        /\ \A i \in 1..Len(parts) : \A f \in SlotFiles(parts[i]) : ~IsAdminFile(f)
        /\ \A i \in 1..Len(filtered) : ~IsAdminFile(filtered[i])
        /\ InputPaths = <<<<"R","E","A","D","M","E",".","m","d">>, <<"C",".","p","n","g">>>> => parts = <<>>

\* an administrative document with a CAD extension is left out of the Part
\* emitted for the other files
C5_Witness ==
    /\ PartsDone
    /\ Len(parts) > 0
    /\ \E i \in 1..Len(files) : IsAdminFile(files[i]) /\ IsDesignFile(files[i])

(***************************************************************************)
(* C6.  Two files that pass the filter are in the same bucket exactly when *)
(* their paths, extension stripped and lower-cased, are equal; the files   *)
(* of one Part all come from one bucket, no two Parts come from the same   *)
(* bucket, and classification reads the extension: a.STEP and A.stl give   *)
(* one Part with source a.STEP and export [A.stl].                         *)
(***************************************************************************)
C6_BucketByStrippedLowerPath ==
    PartsDone =>
        /\ LET kept == {f \in Range(files) : ~IsAdminFile(f)}
           IN  \A f, g \in kept :
                  (StrippedLower(f) = StrippedLower(g))
                     <=> \E b \in Range(buckets) : {f, g} \subseteq Range(b.fl)
        /\ \A i \in 1..Len(parts) : \A f, g \in SlotFiles(parts[i]) :
             StrippedLower(f) = StrippedLower(g)
        /\ \A i, j \in 1..Len(parts) :
             i # j => StrippedLower(parts[i].source) # StrippedLower(parts[j].source)
        /\ InputPaths = <<<<"a",".","S","T","E","P">>, <<"A",".","s","t","l">>>> =>
             /\ Len(parts) = 1
             /\ parts[1].source = files[1]
             /\ parts[1].export = <<files[2]>>

\* a Part whose source and export differ in letter case and in extension
C6_Witness ==
    /\ PartsDone
    /\ \E i \in 1..Len(parts) : \E f \in Range(parts[i].export) :
         /\ WithSuffixEmpty(f.path.str) # WithSuffixEmpty(parts[i].source.path.str)
         /\ PathSuffix(parts[i].source.path.str) # Lower(PathSuffix(parts[i].source.path.str))

(***************************************************************************)
(* C7.  Each input file fills at most one slot (source, a place in export, *)
(* image) of at most one Part, so a promoted export is no longer in        *)
(* export; the image of a Part is the first image-format file of its       *)
(* bucket, later images being ignored.                                     *)
(***************************************************************************)
C7_ExclusiveOwnership ==
    PartsDone =>
        /\ \A i \in 1..Len(parts) :
             /\ parts[i].source \notin Range(parts[i].export)
             /\ parts[i].image \notin Range(parts[i].export) \cup {parts[i].source}
             /\ \A m, n \in 1..Len(parts[i].export) :
                  m # n => parts[i].export[m] # parts[i].export[n]
        /\ \A i, j \in 1..Len(parts) :
             i # j => SlotFiles(parts[i]) \cap SlotFiles(parts[j]) = {}
        /\ \A i \in 1..Len(parts) :
             LET images == SelectSeq(BucketOf(StrippedLower(parts[i].source)), IsImageFile)
             IN  parts[i].image = IF Len(images) > 0 THEN images[1] ELSE NoFile

\* a Part with an image whose bucket holds a later image as well
C7_Witness ==
    /\ PartsDone
    /\ \E i \in 1..Len(parts) :
         /\ parts[i].image # NoFile
         /\ \E j \in 1..Len(files) :
              /\ IsImageFile(files[j])
              /\ StrippedLower(files[j]) = StrippedLower(parts[i].source)
              /\ files[j].id > parts[i].image.id

(***************************************************************************)
(* OshwaNormalizer._get_key                                                *)
(***************************************************************************)
MaxKeys == 2

\* the characters of each key the model passes to _get_key
KeyChars ==
    ("a" :> <<"a">>) @@
    ("b" :> <<"b">>) @@
    ("fetcher" :> <<"f","e","t","c","h","e","r">>) @@
    ("responsibleParty" :> <<"r","e","s","p","o","n","s","i","b","l","e","P","a","r","t","y">>) @@
    ("lastVisited" :> <<"l","a","s","t","V","i","s","i","t","e","d">>) @@
    ("projectName" :> <<"p","r","o","j","e","c","t","N","a","m","e">>) @@
    ("documentationUrl" :> <<"d","o","c","u","m","e","n","t","a","t","i","o","n","U","r","l">>) @@
    ("oshwaUid" :> <<"o","s","h","w","a","U","i","d">>) @@
    ("certificationDate" :> <<"c","e","r","t","i","f","i","c","a","t","i","o","n","D","a","t","e">>) @@
    ("projectVersion" :> <<"p","r","o","j","e","c","t","V","e","r","s","i","o","n">>) @@
    ("hardwareLicense" :> <<"h","a","r","d","w","a","r","e","L","i","c","e","n","s","e">>) @@
    ("projectDescription" :> <<"p","r","o","j","e","c","t","D","e","s","c","r","i","p","t","i","o","n">>) @@
    ("primaryType" :> <<"p","r","i","m","a","r","y","T","y","p","e">>) @@
    ("additionalType" :> <<"a","d","d","i","t","i","o","n","a","l","T","y","p","e">>)

\* s[i..] starts with sub
StartsAt(s, i, sub) ==
    /\ i + Len(sub) - 1 <= Len(s)
    /\ \A j \in 1..Len(sub) : s[i + j - 1] = sub[j]

\* `k in last` for a str, a list or a dict
Contains(last, k) ==
    CASE last.t = "dict" -> k \in DOMAIN last.d
      [] last.t = "str"  -> \E i \in 1..Len(last.s) : StartsAt(last.s, i, KeyChars[k])
      [] last.t = "list" -> \E i \in 1..Len(last.l) : last.l[i] = PyStr(KeyChars[k])
      [] OTHER           -> FALSE

\* `k in last` raises TypeError for a value that is no container
IsContainer(v) == v.t \in {"dict", "str", "list"}

RECURSIVE GetKeyFrom(_, _, _, _)
\* the loop from its i-th round on, then the two returns after it
GetKeyFrom(last, keys, i, dflt) ==
    IF i > Len(keys)
    THEN IF ~Truthy(last) THEN Return(dflt) ELSE Return(last)
    ELSE IF ~Truthy(last) THEN Return(dflt)
    ELSE IF ~IsContainer(last) THEN Raise("TypeError")
    ELSE IF ~Contains(last, keys[i]) THEN Return(dflt)
    ELSE IF last.t = "dict" THEN GetKeyFrom(last.d[keys[i]], keys, i + 1, dflt)
    ELSE Raise("TypeError")

\* _get_key(obj, *key, default=default)
GetKey(o, keys, dflt) == GetKeyFrom(o, keys, 1, dflt)

\* the trees _get_key is applied to: leaves, dicts of leaves, dicts of those
GetKeyKeys == {"a", "b"}

Leaves ==
    {PyNone, PyInt(0), PyInt(5), PyStr(<<>>), PyStr(<<"a", "b">>),
     PyList(<<PyStr(<<"a">>)>>)}

DictsOf(values) == {PyDict(f) : f \in UNION {[K -> values] : K \in SUBSET GetKeyKeys}}

Trees == Leaves \cup DictsOf(Leaves) \cup DictsOf(Leaves \cup DictsOf(Leaves))

Defaults == {PyNone, PyStr(DefaultVersion)}

CallGetKey ==
    /\ pc = "call"
    /\ result' = GetKey(obj, key, default)
    /\ pc' = "done"
    /\ UNCHANGED <<partsVars, getKeyVars, raw, ioVars>>

InitGetKey ==
    /\ pc = "call"
    /\ obj \in Trees
    /\ \E n \in 0..MaxKeys : key \in [1..n -> GetKeyKeys]
    /\ default \in Defaults
    /\ result = NoResult
    /\ IoIdle
    /\ files = <<>> /\ filtered = <<>> /\ buckets = <<>> /\ bi = 0 /\ parts = <<>>
    /\ raw = PyNone

NextGetKey == CallGetKey

SpecGetKey == InitGetKey /\ [][NextGetKey]_vars

(***************************************************************************)
(* LICENSE_MAPPING and OshwaNormalizer._normalize_license                  *)
(***************************************************************************)
LICENSE_MAPPING ==
    (<<"C","C","-","B","Y","-","4",".","0">> :> <<"C","C","-","B","Y","-","4",".","0">>) @@
    (<<"C","C","0","-","1",".","0">> :> <<"C","C","0","-","1",".","0">>) @@
    (<<"M","I","T">> :> <<"M","I","T">>) @@
    (<<"B","S","D","-","2","-","C","l","a","u","s","e">> :> <<"B","S","D","-","2","-","C","l","a","u","s","e">>) @@
    (<<"C","C","-","B","Y","-","S","A","-","4",".","0">> :> <<"C","C","-","B","Y","-","S","A","-","4",".","0">>) @@
    (<<"C","C"," ","B","Y","-","S","A">> :> <<"C","C","-","B","Y","-","S","A","-","4",".","0">>) @@
    (<<"G","P","L","-","3",".","0">> :> <<"G","P","L","-","3",".","0","-","o","n","l","y">>) @@
    (<<"O","H","L">> :> <<"T","A","P","R","-","O","H","L","-","1",".","0">>) @@
    (<<"C","E","R","N"," ","O","H","L">> :> <<"C","E","R","N","-","O","H","L","-","1",".","2">>) @@
    (<<"C","E","R","N">> :> <<"C","E","R","N","-","O","H","L","-","1",".","2">>) @@
    (<<"a","l","t","e","r","n","a","t","i","v","e","L","i","c","e","n","s","e">> :> <<"M","I","T">>)

\* krawl.licenses is not among the sources; from the specification: the
\* resolver gives the License of a canonical identifier it knows and None
\* for anything else, None included.
KnownLicenseIds ==
    {<<"B","S","D","-","2","-","C","l","a","u","s","e">>,
     <<"C","C","-","B","Y","-","4",".","0">>,
     <<"C","C","-","B","Y","-","S","A","-","4",".","0">>,
     <<"C","C","0","-","1",".","0">>,
     <<"C","E","R","N","-","O","H","L","-","1",".","2">>,
     <<"G","P","L","-","3",".","0","-","o","n","l","y">>,
     <<"M","I","T">>,
     <<"T","A","P","R","-","O","H","L","-","1",".","0">>}

PyLicense(id) == [t |-> "License", n |-> 0, s |-> id, l |-> <<>>, d |-> <<>>]

\* licenses.get_by_id_or_name
GetByIdOrName(v) ==
    IF v.t = "str" /\ v.s \in KnownLicenseIds THEN PyLicense(v.s) ELSE PyNone

\* LICENSE_MAPPING.get(raw_license); a list or a dict is unhashable
MappingGet(raw_license) ==
    IF raw_license.t \in {"list", "dict"} THEN Raise("TypeError")
    ELSE IF raw_license.t = "str" /\ raw_license.s \in DOMAIN LICENSE_MAPPING
    THEN Return(PyStr(LICENSE_MAPPING[raw_license.s]))
    ELSE Return(PyNone)

\* _normalize_license that hands an unmapped label on as it is
NormalizeLicense_PassThrough(r) ==
    LET got == GetKey(r, <<"hardwareLicense">>, PyNone)
    IN  IF got.kind = "raise" THEN got
        ELSE IF ~Truthy(got.value) THEN Return(PyNone)
        ELSE IF MappingGet(got.value).kind = "raise" THEN MappingGet(got.value)
        ELSE IF MappingGet(got.value).value = PyNone THEN Return(got.value)
        ELSE Return(GetByIdOrName(MappingGet(got.value).value))

\* _normalize_license
NormalizeLicense(r) ==
    LET got == GetKey(r, <<"hardwareLicense">>, PyNone)
    IN  IF got.kind = "raise" THEN got
        ELSE IF ~Truthy(got.value) THEN Return(PyNone)
        ELSE IF got.value = PyStr(NoneLabel) \/ got.value = PyStr(OtherLabel)
        THEN Return(PyNone)
        ELSE IF MappingGet(got.value).kind = "raise" THEN MappingGet(got.value)
        ELSE Return(GetByIdOrName(MappingGet(got.value).value))

(***************************************************************************)
(* OshwaNormalizer._normalize_repo, _normalize_created_at,                 *)
(* _normalize_function, _normalize_language, _normalize_classification     *)
(***************************************************************************)
\* str(v) inside an f-string
StrOf(v) == IF v.t = "str" THEN v.s ELSE <<"?">>

\* _normalize_repo
NormalizeRepo(r) ==
    LET doc_url == IF "documentationUrl" \in DOMAIN r.d THEN r.d["documentationUrl"] ELSE PyNone
    IN  IF ~Truthy(doc_url)
        THEN IF "oshwaUid" \in DOMAIN r.d
             THEN Return(PyStr(RegistryUrlPrefix \o StrOf(r.d["oshwaUid"]) \o HtmlSuffix))
             ELSE Raise("KeyError")
        ELSE Return(doc_url)

PyDatetime(iso) == [t |-> "datetime", n |-> 0, s |-> iso, l |-> <<>>, d |-> <<>>]

\* the texts of the model that datetime.fromisoformat accepts
IsoTexts == {EpochText, SampleCertificationDate}

\* datetime.fromisoformat
FromIsoFormat(v) ==
    IF v.t # "str" THEN Raise("TypeError")
    ELSE IF v.s \in IsoTexts THEN Return(PyDatetime(v.s))
    ELSE Raise("ValueError")

\* _normalize_created_at
NormalizeCreatedAt(r) ==
    LET certification_date ==
            IF "certificationDate" \in DOMAIN r.d THEN r.d["certificationDate"] ELSE PyNone
    IN  IF ~Truthy(certification_date)
        THEN FromIsoFormat(PyStr(EpochText))
        ELSE FromIsoFormat(r.d["certificationDate"])

RECURSIVE StripTags(_, _, _)
\* krawl.normalizer.strip_html is not among the sources; from the
\* specification it strips HTML markup: the characters from a "<" to the
\* next ">" are left out.
StripTags(str, i, inTag) ==
    IF i > Len(str) THEN <<>>
    ELSE IF inTag THEN StripTags(str, i + 1, str[i] # ">")
    ELSE IF str[i] = "<" THEN StripTags(str, i + 1, TRUE)
    ELSE <<str[i]>> \o StripTags(str, i + 1, FALSE)

strip_html(str) == StripTags(str, 1, FALSE)

\* str.strip()
Strip(str) ==
    LET inked == {i \in 1..Len(str) : str[i] # " "}
    IN  IF inked = {} THEN <<>>
        ELSE SubSeq(str, CHOOSE i \in inked : \A j \in inked : i <= j,
                         CHOOSE i \in inked : \A j \in inked : i >= j)

\* _normalize_function
NormalizeFunction(r) ==
    LET raw_description ==
            IF "projectDescription" \in DOMAIN r.d THEN r.d["projectDescription"] ELSE PyNone
    IN  IF ~Truthy(raw_description) THEN Return(PyStr(<<>>))
        ELSE IF raw_description.t # "str" THEN Raise("TypeError")
        ELSE Return(PyStr(Strip(strip_html(raw_description.s))))

\* what langdetect.detect gives for a text: one of the codes of its language
\* profiles ("en", "de", ..., "zh-cn", "zh-tw"), "unknown", or
\* LangDetectException
DetectOutcomes ==
    {Return(PyStr(<<"e","n">>)), Return(PyStr(<<"d","e">>)),
     Return(PyStr(<<"z","h","-","c","n">>)),
     Return(PyStr(UnknownText)), Raise("LangDetectException")}

\* _normalize_language, `detected` being what detect_language gives
NormalizeLanguage(description, detected) ==
    IF ~Truthy(description) THEN Return(PyStr(<<"e","n">>))
    ELSE IF detected.kind = "raise" THEN Return(PyStr(<<"e","n">>))
    ELSE IF detected.value = PyStr(UnknownText) THEN Return(PyStr(<<"e","n">>))
    ELSE detected

unmappable_categories ==
    <<<<"A","r","t","s">>,
      <<"E","d","u","c","a","t","i","o","n">>,
      <<"E","n","v","i","r","o","n","m","e","n","t","a","l">>,
      <<"M","a","n","u","f","a","c","t","u","r","i","n","g">>,
      <<"O","t","h","e","r">>,
      <<"S","c","i","e","n","c","e">>,
      <<"T","o","o","l">>>>

mapping_primary_to_cpc ==
    (<<"3","D"," ","P","r","i","n","t","i","n","g">> :> <<"B","3","3","Y">>) @@
    (<<"A","g","r","i","c","u","l","t","u","r","e">> :> <<"A","0","1">>) @@
    (<<"E","l","e","c","t","r","o","n","i","c","s">> :> <<"H">>) @@
    (<<"E","n","c","l","o","s","u","r","e">> :> <<"F","1","6","M">>) @@
    (<<"H","o","m","e"," ","C","o","n","n","e","c","t","i","o","n">> :> <<"H","0","4","W">>) @@
    (<<"I","O","T">> :> <<"H","0","4">>) @@
    (<<"R","o","b","o","t","i","c","s">> :> <<"B","2","5","J","9"," ","/"," ","0","0">>) @@
    (<<"S","o","u","n","d">> :> <<"H","0","4","R">>) @@
    (<<"S","p","a","c","e">> :> <<"B","6","4","G">>) @@
    (<<"W","e","a","r","a","b","l","e","s">> :> <<"H">>)

\* _normalize_classification looking every primaryType up in the table
NormalizeClassification_TableOnly(r) ==
    LET primary_type == IF "primaryType" \in DOMAIN r.d THEN r.d["primaryType"] ELSE PyNone
    IN  IF primary_type.t \in {"list", "dict"} THEN Raise("TypeError")
        ELSE IF primary_type.t = "str" /\ primary_type.s \in DOMAIN mapping_primary_to_cpc
        THEN Return(PyStr(mapping_primary_to_cpc[primary_type.s]))
        ELSE Return(primary_type)

\* _normalize_classification
NormalizeClassification(r) ==
    LET primary_type == IF "primaryType" \in DOMAIN r.d THEN r.d["primaryType"] ELSE PyNone
        additional_type ==
            IF "additionalType" \in DOMAIN r.d THEN r.d["additionalType"] ELSE PyNone
    IN  IF \E i \in 1..Len(unmappable_categories) :
              primary_type = PyStr(unmappable_categories[i])
        THEN IF additional_type = PyNone THEN Return(PyStr(<<>>))
             ELSE IF additional_type.t \notin {"str", "list", "dict"} THEN Raise("TypeError")
             ELSE IF ~Truthy(additional_type) THEN Return(PyStr(<<>>))
             ELSE Return(additional_type)
        ELSE IF primary_type.t \in {"list", "dict"} THEN Raise("TypeError")
        ELSE IF primary_type.t = "str" /\ primary_type.s \in DOMAIN mapping_primary_to_cpc
        THEN Return(PyStr(mapping_primary_to_cpc[primary_type.s]))
        ELSE Return(primary_type)

(***************************************************************************)
(* urllib.parse.quote(string), safe = "/"                                  *)
(***************************************************************************)
Digits == <<"0","1","2","3","4","5","6","7","8","9">>

\* the characters quote never encodes, and the safe "/"
QuoteSafe ==
    Range(LowerLetters) \cup Range(UpperLetters) \cup Range(Digits)
        \cup {"_", ".", "-", "~", "/"}

\* the %XX of the other ASCII characters of the model
PercentCode ==
    (" " :> <<"%","2","0">>) @@ ("%" :> <<"%","2","5">>) @@ ("+" :> <<"%","2","B">>)

RECURSIVE QuoteFrom(_, _)
QuoteFrom(str, i) ==
    IF i > Len(str) THEN <<>>
    ELSE (IF str[i] \in QuoteSafe THEN <<str[i]>> ELSE PercentCode[str[i]])
            \o QuoteFrom(str, i + 1)

\* quote leaving every character as it is
Quote_Unencoded(v) == IF v.t = "str" THEN Return(v) ELSE Raise("TypeError")

\* quote of anything but a str (or bytes) raises TypeError
Quote(v) == IF v.t = "str" THEN Return(PyStr(QuoteFrom(v.s, 1))) ELSE Raise("TypeError")

(***************************************************************************)
(* OshwaNormalizer.normalize                                               *)
(***************************************************************************)
\* raw[k]
Subscript(r, k) == IF k \in DOMAIN r.d THEN Return(r.d[k]) ELSE Raise("KeyError")

\* Project() with the fields normalize assigns
MakeProject(r, repo, created_at, version, license, function, language, cpc) ==
    [meta |-> [source |-> r.d["fetcher"], host |-> r.d["fetcher"],
               owner |-> r.d["responsibleParty"], repo |-> repo,
               created_at |-> created_at, last_visited |-> r.d["lastVisited"]],
     name |-> r.d["projectName"],
     repo |-> repo,
     version |-> version,
     release |-> PyStr(<<>>),
     license |-> license,
     licensor |-> r.d["responsibleParty"],
     function |-> function,
     documentation_language |-> language,
     technology_readiness_level |-> PyNone,
     documentation_readiness_level |-> PyNone,
     attestation |-> PyNone,
     publication |-> PyNone,
     standard_compliance |-> PyNone,
     cpc_patent_class |-> cpc,
     tsdc |-> PyNone,
     bom |-> PyNone,
     manufacturing_instructions |-> PyNone,
     outer_dimensions_mm |-> PyNone,
     software |-> PyList(<<>>)]

\* a normalize that returns: the Project is in `project`
ReturnProject(p) == [kind |-> "return", value |-> PyNone, exc |-> "", project |-> p]

\* the statements of normalize in order; the first exception ends it
NormalizeResult(r, detected) ==
    LET repo     == NormalizeRepo(r)
        created  == NormalizeCreatedAt(r)
        version  == Quote(GetKey(r, <<"projectVersion">>, PyStr(DefaultVersion)).value)
        license  == NormalizeLicense(r)
        function == NormalizeFunction(r)
        cpc      == NormalizeClassification(r)
    IN  IF Subscript(r, "fetcher").kind = "raise" THEN Subscript(r, "fetcher")
        ELSE IF Subscript(r, "responsibleParty").kind = "raise"
        THEN Subscript(r, "responsibleParty")
        ELSE IF repo.kind = "raise" THEN repo
        ELSE IF created.kind = "raise" THEN created
        ELSE IF Subscript(r, "lastVisited").kind = "raise" THEN Subscript(r, "lastVisited")
        ELSE IF Subscript(r, "projectName").kind = "raise" THEN Subscript(r, "projectName")
        ELSE IF version.kind = "raise" THEN version
        ELSE IF license.kind = "raise" THEN license
        ELSE IF function.kind = "raise" THEN function
        ELSE IF cpc.kind = "raise" THEN cpc
        ELSE ReturnProject(MakeProject(r, repo.value, created.value, version.value,
                                       license.value, function.value,
                                       NormalizeLanguage(function.value, detected).value,
                                       cpc.value))

\* a key the record does not hold
Absent == [t |-> "absent", n |-> 0, s |-> <<>>, l |-> <<>>, d |-> <<>>]

\* the values each field of the raw record is drawn from
FieldValues ==
    [fetcher            |-> {Absent, PyStr(SampleFetcher)},
     responsibleParty   |-> {Absent, PyStr(SampleParty)},
     lastVisited        |-> {Absent, PyStr(SampleVisited)},
     projectName        |-> {Absent, PyStr(SampleName)},
     documentationUrl   |-> {Absent, PyStr(<<>>), PyStr(SampleUrl)},
     oshwaUid           |-> {Absent, PyStr(SampleUid)},
     certificationDate  |-> {Absent, PyStr(SampleCertificationDate), PyStr(MalformedDate)},
     projectVersion     |-> {Absent, PyStr(<<>>), PyStr(SampleVersion), PyInt(2)},
     hardwareLicense    |-> {Absent, PyStr(<<>>), PyStr(NoneLabel), PyStr(OtherLabel),
                             PyStr(CernLabel), PyStr(UnmappedLabel)},
     projectDescription |-> {Absent, PyStr(<<>>), PyStr(SampleDescription)},
     primaryType        |-> {Absent, PyStr(OtherLabel), PyStr(ElectronicsText)},
     additionalType     |-> {Absent, PyList(<<PyStr(ElectronicsText)>>)}]

Fields == DOMAIN FieldValues

\* the dict holding the fields of `choice` that are not absent
MakeRaw(choice) == PyDict([k \in {f \in Fields : choice[f] # Absent} |-> choice[k]])

Normalize ==
    /\ pc = "call"
    /\ \E detected \in DetectOutcomes : result' = NormalizeResult(raw, detected)
    /\ pc' = "done"
    /\ UNCHANGED <<partsVars, getKeyVars, raw, ioVars>>

InitNormalize ==
    /\ pc = "call"
    /\ \E v1 \in FieldValues.fetcher,
          v2 \in FieldValues.responsibleParty,
          v3 \in FieldValues.lastVisited,
          v4 \in FieldValues.projectName,
          v5 \in FieldValues.documentationUrl,
          v6 \in FieldValues.oshwaUid,
          v7 \in FieldValues.certificationDate,
          v8 \in FieldValues.projectVersion,
          v9 \in FieldValues.hardwareLicense,
          v10 \in FieldValues.projectDescription,
          v11 \in FieldValues.primaryType,
          v12 \in FieldValues.additionalType :
          raw = MakeRaw([fetcher |-> v1,
                         responsibleParty |-> v2,
                         lastVisited |-> v3,
                         projectName |-> v4,
                         documentationUrl |-> v5,
                         oshwaUid |-> v6,
                         certificationDate |-> v7,
                         projectVersion |-> v8,
                         hardwareLicense |-> v9,
                         projectDescription |-> v10,
                         primaryType |-> v11,
                         additionalType |-> v12])
    /\ result = NoResult
    /\ IoIdle
    /\ files = <<>> /\ filtered = <<>> /\ buckets = <<>> /\ bi = 0 /\ parts = <<>>
    /\ obj = PyNone /\ key = <<>> /\ default = PyNone

NextNormalize == Normalize

SpecNormalize == InitNormalize /\ [][NextNormalize]_vars

(***************************************************************************)
(* Vocabulary of the claims about normalize and _get_key                   *)
(***************************************************************************)
CallDone == pc = "done"

\* a complete, well-formed record of the provider
SampleRecord ==
    [fetcher            |-> PyStr(SampleFetcher),
     responsibleParty   |-> PyStr(SampleParty),
     lastVisited        |-> PyStr(SampleVisited),
     projectName        |-> PyStr(SampleName),
     documentationUrl   |-> PyStr(SampleUrl),
     oshwaUid           |-> PyStr(SampleUid),
     certificationDate  |-> PyStr(SampleCertificationDate),
     projectVersion     |-> PyStr(SampleVersion),
     hardwareLicense    |-> PyStr(CernLabel),
     projectDescription |-> PyStr(SampleDescription),
     primaryType        |-> PyStr(ElectronicsText),
     additionalType     |-> PyList(<<PyStr(ElectronicsText)>>)]

\* the fields the fetcher adds to every record
ProvenanceFields == {"fetcher", "lastVisited"}

\* the sample record with some of the provider's fields left out
IsIncompleteSample(r) ==
    /\ ProvenanceFields \subseteq DOMAIN r.d
    /\ \A k \in DOMAIN r.d : r.d[k] = SampleRecord[k]

(***************************************************************************)
(* C8.  Normalizing a well-formed record from which any of the provider's  *)
(* fields are absent returns a Project holding the documented defaults     *)
(* (version "0.1.0", no license, empty function, language "en", the epoch  *)
(* as creation time) and raises no error.                                  *)
(***************************************************************************)
C8_IncompleteRecordNormalizes ==
    (CallDone /\ IsIncompleteSample(raw)) =>
        /\ result.kind = "return"
        /\ "projectVersion" \notin DOMAIN raw.d =>
              result.project.version = PyStr(DefaultVersion)
        /\ "hardwareLicense" \notin DOMAIN raw.d => result.project.license = PyNone
        /\ "projectDescription" \notin DOMAIN raw.d =>
              /\ result.project.function = PyStr(<<>>)
              /\ result.project.documentation_language = PyStr(<<"e","n">>)
        /\ "certificationDate" \notin DOMAIN raw.d =>
              result.project.meta.created_at = PyDatetime(EpochText)

(***************************************************************************)
(* C9.  For a tree (a mapping) and a non-empty key sequence, when the walk  *)
(* down the tree meets a value that is missing, falsy or no mapping before *)
(* the keys are used up, _get_key returns the default handed to it and     *)
(* raises nothing.                                                         *)
(***************************************************************************)
RECURSIVE Resolves(_, _, _)
\* following keys[i..] from v stays inside non-empty mappings holding the key
Resolves(v, keys, i) ==
    \/ i > Len(keys)
    \/ /\ v.t = "dict"
       /\ keys[i] \in DOMAIN v.d
       /\ Resolves(v.d[keys[i]], keys, i + 1)

C9_BrokenWalkGivesDefault ==
    (CallDone /\ obj.t = "dict" /\ Len(key) > 0 /\ ~Resolves(obj, key, 1))
        => result = Return(default)

(***************************************************************************)
(* C10.  The license of a normalized Project is None or the License of a   *)
(* canonical identifier of LICENSE_MAPPING, never the raw label: a         *)
(* hardwareLicense that is absent, empty, "None", "Other" or not a key of  *)
(* LICENSE_MAPPING gives None, and no license label makes normalize raise. *)
(***************************************************************************)
\* the canonical identifiers of the table
CanonicalIds == {LICENSE_MAPPING[label] : label \in DOMAIN LICENSE_MAPPING}

\* the label of the record, None when the field is absent
LicenseLabel(r) ==
    IF "hardwareLicense" \in DOMAIN r.d THEN r.d["hardwareLicense"] ELSE PyNone

\* the record is the sample but for its license label
OnlyLicenseVaries(r) ==
    /\ DOMAIN r.d \ {"hardwareLicense"} = Fields \ {"hardwareLicense"}
    /\ \A k \in Fields \ {"hardwareLicense"} : r.d[k] = SampleRecord[k]

C10_LicenseResolvedOrNone ==
    /\ (CallDone /\ OnlyLicenseVaries(raw)) => result.kind = "return"
    /\ (CallDone /\ result.kind = "return") =>
          /\ \/ result.project.license = PyNone
             \/ \E id \in CanonicalIds : result.project.license = PyLicense(id)
          /\ \/ LicenseLabel(raw) \in {PyNone, PyStr(<<>>), PyStr(NoneLabel), PyStr(OtherLabel)}
             \/ LicenseLabel(raw).s \notin DOMAIN LICENSE_MAPPING
             => result.project.license = PyNone

\* a Project normalized from a record whose label is not in the table
C10_Witness ==
    /\ CallDone
    /\ result.kind = "return"
    /\ LicenseLabel(raw) = PyStr(UnmappedLabel)
    /\ result.project.license = PyNone

(***************************************************************************)
(* _normalize_classification on its own, over every primaryType the code   *)
(* names and some it does not                                              *)
(***************************************************************************)
PrimaryTypes ==
    {Absent, PyNone, PyStr(<<>>), PyStr(<<"D","r","o","n","e">>)}
        \cup {PyStr(unmappable_categories[i]) : i \in 1..Len(unmappable_categories)}
        \cup {PyStr(k) : k \in DOMAIN mapping_primary_to_cpc}

AdditionalTypes ==
    {Absent, PyNone, PyList(<<>>), PyList(<<PyStr(ElectronicsText)>>),
     PyList(<<PyStr(<<"S","o","u","n","d">>), PyStr(ElectronicsText)>>)}

\* the record holding the two fields when they are not absent
ClassificationRaw(primary_type, additional_type) ==
    LET choice == [primaryType |-> primary_type, additionalType |-> additional_type]
    IN  PyDict([k \in {f \in DOMAIN choice : choice[f] # Absent} |-> choice[k]])

Classify ==
    /\ pc = "call"
    /\ result' = NormalizeClassification(raw)
    /\ pc' = "done"
    /\ UNCHANGED <<partsVars, getKeyVars, raw, ioVars>>

InitClassification ==
    /\ pc = "call"
    /\ \E primary_type \in PrimaryTypes, additional_type \in AdditionalTypes :
          raw = ClassificationRaw(primary_type, additional_type)
    /\ result = NoResult
    /\ PartsIdle /\ GetKeyIdle /\ IoIdle

NextClassification == Classify

SpecClassification == InitClassification /\ [][NextClassification]_vars

(***************************************************************************)
(* C11.  _normalize_classification falls back in three tiers: for a        *)
(* primaryType among Arts, Education, Environmental, Manufacturing, Other, *)
(* Science and Tool the result is additionalType as it is, or the empty    *)
(* string when additionalType is absent or empty; for any other            *)
(* primaryType it is the code the table gives (Electronics gives "H"), or  *)
(* primaryType itself when the table does not hold it.                     *)
(***************************************************************************)
\* the categories deferred to additionalType
DeferredCategories ==
    {<<"A","r","t","s">>, <<"E","d","u","c","a","t","i","o","n">>,
     <<"E","n","v","i","r","o","n","m","e","n","t","a","l">>,
     <<"M","a","n","u","f","a","c","t","u","r","i","n","g">>,
     <<"O","t","h","e","r">>, <<"S","c","i","e","n","c","e">>, <<"T","o","o","l">>}

\* a field of the record, None when the record does not hold it
FieldOrNone(r, k) == IF k \in DOMAIN r.d THEN r.d[k] ELSE PyNone

IsDeferred(r) ==
    /\ FieldOrNone(r, "primaryType").t = "str"
    /\ FieldOrNone(r, "primaryType").s \in DeferredCategories

InTable(r) ==
    /\ FieldOrNone(r, "primaryType").t = "str"
    /\ FieldOrNone(r, "primaryType").s \in DOMAIN mapping_primary_to_cpc

C11_ThreeTierClassification ==
    CallDone =>
        /\ IsDeferred(raw) =>
              result = IF FieldOrNone(raw, "additionalType") \in {PyNone, PyList(<<>>)}
                       THEN Return(PyStr(<<>>))
                       ELSE Return(FieldOrNone(raw, "additionalType"))
        /\ (~IsDeferred(raw) /\ InTable(raw)) =>
              result = Return(PyStr(mapping_primary_to_cpc[FieldOrNone(raw, "primaryType").s]))
        /\ FieldOrNone(raw, "primaryType") = PyStr(ElectronicsText) =>
              result = Return(PyStr(<<"H">>))
        /\ (~IsDeferred(raw) /\ ~InTable(raw)) =>
              result = Return(FieldOrNone(raw, "primaryType"))

\* a deferred category whose additionalType list is handed through
C11_Witness ==
    /\ CallDone
    /\ FieldOrNone(raw, "primaryType") = PyStr(<<"T","o","o","l">>)
    /\ FieldOrNone(raw, "additionalType") = PyList(<<PyStr(ElectronicsText)>>)
    /\ result = Return(PyList(<<PyStr(ElectronicsText)>>))

(***************************************************************************)
(* The document deserializers (src/krawl/serializer/json_deserializer.py,  *)
(* toml_deserializer.py).  A text is the rendering of a value in one       *)
(* syntax, or of none: no text is both a JSON document and a TOML          *)
(* document, and a TOML document is a table.                               *)
(***************************************************************************)
Text(syntax, value, is_bytes) == [syntax |-> syntax, value |-> value, bytes |-> is_bytes]

\* json.loads
JsonLoads(text) ==
    IF text.syntax = "json" THEN Return(text.value) ELSE Raise("JSONDecodeError")

\* toml.loads
TomlLoads(text) ==
    IF text.syntax = "toml" THEN Return(text.value) ELSE Raise("TomlDecodeError")

\* bytes.decode("utf-8", errors="ignore")
Decode(text) == [text EXCEPT !.bytes = FALSE]

\* isinstance(deserialized, Mapping)
IsMapping(v) == v.t = "dict"

\* dict.update
Update(d, e) == PyDict([k \in DOMAIN d.d \cup DOMAIN e.d |->
                           IF k \in DOMAIN e.d THEN e.d[k] ELSE d.d[k]])

\* what either deserialize does once the text is parsed
DeserializeParsed(deserialized, enrich_, detected) ==
    IF ~IsMapping(deserialized)
    THEN [result |-> Raise("DeserializerError"), calls |-> 0]
    ELSE [result |-> NormalizeResult(IF Truthy(enrich_) THEN Update(deserialized, enrich_)
                                     ELSE deserialized, detected),
          calls |-> 1]

\* JSONProjectDeserializer.deserialize
JsonDeserialize(serialized_, enrich_, detected) ==
    LET loaded == JsonLoads(serialized_)
    IN  IF loaded.kind = "raise"
        THEN [result |-> Raise("DeserializerError"), calls |-> 0]
        ELSE DeserializeParsed(loaded.value, enrich_, detected)

\* TOMLProjectDeserializer.deserialize
TomlDeserialize(serialized_, enrich_, detected) ==
    LET text == IF serialized_.bytes THEN Decode(serialized_) ELSE serialized_
        loaded == TomlLoads(text)
    IN  IF loaded.kind = "raise"
        THEN [result |-> loaded, calls |-> 0]
        ELSE DeserializeParsed(loaded.value, enrich_, detected)

\* the record of the provider without the fields of `without`
SampleWithout(without) ==
    PyDict([k \in DOMAIN SampleRecord \ without |-> SampleRecord[k]])

\* the key-value trees the sample documents hold
SampleTrees ==
    {PyDict(<<>>), SampleWithout({}), SampleWithout({"fetcher", "lastVisited"}),
     SampleWithout({"responsibleParty"})}

\* the values a JSON document can hold that are no key-value tree
JsonScalars == {PyNone, PyInt(5), PyStr(SampleName), PyList(<<PyInt(1), PyInt(2)>>)}

SampleTexts ==
    {Text(syntax, value, is_bytes) :
        syntax \in {"json", "toml"}, value \in SampleTrees, is_bytes \in BOOLEAN}
    \cup {Text("json", value, is_bytes) : value \in JsonScalars, is_bytes \in BOOLEAN}
    \cup {Text("none", PyNone, is_bytes) : is_bytes \in BOOLEAN}

Enrichments ==
    {PyNone, PyDict(<<>>),
     PyDict([fetcher |-> PyStr(SampleFetcher), lastVisited |-> PyStr(SampleVisited)])}

DeserializeJson ==
    /\ pc = "call"
    /\ deserializer = "JSONProjectDeserializer"
    /\ \E detected \in DetectOutcomes :
          LET out == JsonDeserialize(serialized, enrich, detected)
          IN  result' = out.result /\ normalize_calls' = normalize_calls + out.calls
    /\ pc' = "done"
    /\ UNCHANGED <<partsVars, getKeyVars, raw, deserializer, serialized, enrich,
                   rdfVars, storageVars, limiterVars>>

DeserializeToml ==
    /\ pc = "call"
    /\ deserializer = "TOMLProjectDeserializer"
    /\ \E detected \in DetectOutcomes :
          LET out == TomlDeserialize(serialized, enrich, detected)
          IN  result' = out.result /\ normalize_calls' = normalize_calls + out.calls
    /\ pc' = "done"
    /\ UNCHANGED <<partsVars, getKeyVars, raw, deserializer, serialized, enrich,
                   rdfVars, storageVars, limiterVars>>

InitDeserialize ==
    /\ pc = "call"
    /\ deserializer \in {"JSONProjectDeserializer", "TOMLProjectDeserializer"}
    /\ serialized \in SampleTexts
    /\ enrich \in Enrichments
    /\ normalize_calls = 0
    /\ result = NoResult
    /\ raw = PyNone
    /\ PartsIdle /\ GetKeyIdle /\ RdfIdle /\ StorageIdle /\ LimiterIdle

NextDeserialize == DeserializeJson \/ DeserializeToml

SpecDeserialize == InitDeserialize /\ [][NextDeserialize]_vars

(***************************************************************************)
(* C12.  Whenever the text is no document of the deserializer's encoding,  *)
(* or is one that holds no key-value tree, deserialize raises              *)
(* DeserializerError, no other exception, and does not call the            *)
(* normalizer.  This holds for both deserializers.                         *)
(***************************************************************************)
\* the encoding each deserializer reads
EncodingOf(class) == IF class = "JSONProjectDeserializer" THEN "json" ELSE "toml"

\* the text is a document of the encoding and holds a key-value tree
ParsesToTree(class, text) == text.syntax = EncodingOf(class) /\ text.value.t = "dict"

C12_MalformedGivesDeserializerError ==
    (CallDone /\ ~ParsesToTree(deserializer, serialized)) =>
        /\ result = Raise("DeserializerError")
        /\ normalize_calls = 0

(***************************************************************************)
(* The RDF serializer (src/krawl/serializer/rdf.py).  An rdflib graph is a *)
(* set of triples; a term is a URIRef or a Literal.                        *)
(***************************************************************************)
\* the literal texts of rdf.py
RdfTexts ==
    [https |-> <<"h","t","t","p","s",":","/","/">>,
     http |-> <<"h","t","t","p",":","/","/">>,
     of |-> <<" ","o","f"," ">>,
     v |-> <<" ","v">>,
     part |-> <<"_","p","a","r","t">>,
     source |-> <<"_","s","o","u","r","c","e">>,
     image_suffix |-> <<"_","i","m","a","g","e">>,
     export |-> <<"_","e","x","p","o","r","t">>,
     source_file |-> <<"S","o","u","r","c","e"," ","F","i","l","e">>,
     export_file |-> <<"E","x","p","o","r","t"," ","F","i","l","e">>,
     image |-> <<"I","m","a","g","e">>,
     readme |-> <<"R","e","a","d","m","e">>,
     manifest_file |-> <<"M","a","n","i","f","e","s","t","F","i","l","e">>,
     manufacturing_instructions |-> <<"M","a","n","u","f","a","c","t","u","r","i","n","g","I","n","s","t","r","u","c","t","i","o","n","s">>,
     user_manual |-> <<"U","s","e","r","M","a","n","u","a","l">>,
     bom |-> <<"B","i","l","l"," ","o","f"," ","M","a","t","e","r","i","a","l","s">>]

URIRef(str) == [t |-> "URIRef", n |-> 0, s |-> str, l |-> <<>>, d |-> <<>>]
Literal(v)  == [t |-> "Literal", n |-> 0, s |-> <<>>, l |-> <<v>>, d |-> <<>>]

\* a term of the OKH namespace, and of RDF and RDFS
OKH(name) == URIRef(<<"okh:", name>>)
RDF(name) == URIRef(<<"rdf:", name>>)
RDFS(name) == URIRef(<<"rdfs:", name>>)

\* krawl.project.File, as far as the serializer reads it
PyFile(url, perma_url, extension) ==
    [t |-> "File", n |-> 0, s |-> <<>>, l |-> <<url, perma_url, extension>>, d |-> <<>>]

\* license.is_spdx
IsSpdx(license) == license.s \in KnownLicenseIds

\* validators.url, for the strings of the model
IsUrl(str) == StartsAt(str, 1, RdfTexts.https) \/ StartsAt(str, 1, RdfTexts.http)

IsAlnum(c) ==
    \/ \E i \in 1..Len(LowerLetters) : c = LowerLetters[i] \/ c = UpperLetters[i]
    \/ \E i \in 1..Len(Digits) : c = Digits[i]

RECURSIVE TitlecaseFrom(_, _, _)
\* _titlecase from position i on; `first` when s[i] starts one of the split parts
TitlecaseFrom(str, i, first) ==
    IF i > Len(str) THEN <<>>
    ELSE IF str[i] = " " THEN TitlecaseFrom(str, i + 1, TRUE)
    ELSE LET c == IF first THEN UpperChar(str[i]) ELSE LowerChar(str[i])
         IN  (IF IsAlnum(c) THEN <<c>> ELSE <<>>) \o TitlecaseFrom(str, i + 1, FALSE)

\* _titlecase
Titlecase(str) == TitlecaseFrom(str, 1, TRUE)

\* _make_project_namespace, for a repo URL without query and a relative version
MakeProjectNamespace(proj) == proj.repo.s \o <<"/">> \o proj.version.s \o <<"/">>

\* namespace[name]
InNamespace(namespace, name) == URIRef(namespace \o name)

\* add: the triples it adds to the graph
Add(subject, predicate, object) ==
    IF object = PyNone THEN {}
    ELSE IF object.t = "str" /\ IsUrl(object.s)
    THEN {[s |-> subject, p |-> predicate, o |-> URIRef(object.s)]}
    ELSE IF object.t = "datetime"
    THEN {[s |-> subject, p |-> predicate, o |-> Literal(PyStr(object.s))]}
    ELSE IF object.t \notin {"URIRef", "Literal"}
    THEN {[s |-> subject, p |-> predicate, o |-> Literal(object)]}
    ELSE {[s |-> subject, p |-> predicate, o |-> object]}

\* add_file
AddFile(subject, file) ==
    Add(subject, OKH("fileUrl"), file.l[1])
        \cup Add(subject, OKH("permaURL"), file.l[2])
        \cup Add(subject, OKH("fileFormat"), PyStr(Upper(file.l[3].s)))

\* f"{kind} of {part.name} of {project.name} v{project.version}"
FileLabel(kind, part_name, proj) ==
    PyStr(kind \o RdfTexts.of \o part_name \o RdfTexts.of \o proj.name.s \o RdfTexts.v \o proj.version.s)

\* _add_part: the triples of part i, part_subject among them
AddOnePart(namespace, proj, i) ==
    LET part == proj.part[i]
        partname == Titlecase(IF part.name # proj.name THEN part.name.s
                              ELSE part.name.s \o RdfTexts.part)
        part_subject == InNamespace(namespace, partname)
        license == part.license
        source_subject == InNamespace(namespace, partname \o RdfTexts.source)
        image_subject == InNamespace(namespace, partname \o RdfTexts.image_suffix)
        export_subject(j) == InNamespace(namespace, partname \o RdfTexts.export \o <<Digits[j + 1]>>)
    IN  Add(part_subject, RDF("type"), OKH("Part"))
        \cup Add(part_subject, RDFS("label"), part.name)
        \cup Add(part_subject, OKH("documentationLanguage"), proj.documentation_language)
        \cup (IF Truthy(license) /\ IsSpdx(license)
              THEN Add(part_subject, OKH("spdxLicense"), license)
              ELSE Add(part_subject, OKH("alternativeLicense"), license))
        \cup Add(part_subject, OKH("licensor"), part.licensor)
        \cup Add(part_subject, OKH("material"), part.material)
        \cup Add(part_subject, OKH("manufacturingProcess"), part.manufacturing_process)
        \cup Add(part_subject, OKH("outerDimensionsMM"), part.outer_dimensions_mm)
        \cup Add(part_subject, OKH("tsdc"), part.tsdc)
        \cup (IF part.source # PyNone
              THEN Add(part_subject, OKH("source"), source_subject)
                   \cup Add(source_subject, RDF("type"), OKH("SourceFile"))
                   \cup Add(source_subject, RDFS("label"),
                            FileLabel(RdfTexts.source_file, part.name.s, proj))
                   \cup AddFile(source_subject, part.source)
              ELSE {})
        \cup UNION {Add(part_subject, OKH("export"), export_subject(j))
                    \cup Add(export_subject(j), RDF("type"), OKH("ExportFile"))
                    \cup Add(export_subject(j), RDFS("label"),
                             FileLabel(RdfTexts.export_file, part.name.s, proj))
                    \cup AddFile(export_subject(j), part.export[j]) :
                    j \in 1..Len(part.export)}
        \cup (IF part.image # PyNone
              THEN Add(part_subject, OKH("image"), image_subject)
                   \cup Add(image_subject, RDF("type"), OKH("Image"))
                   \cup Add(image_subject, RDFS("label"), FileLabel(RdfTexts.image, part.name.s, proj))
                   \cup AddFile(image_subject, part.image)
              ELSE {})

\* the part_subject of part i
PartSubject(namespace, proj, i) ==
    InNamespace(namespace, Titlecase(IF proj.part[i].name # proj.name THEN proj.part[i].name.s
                                     ELSE proj.part[i].name.s \o RdfTexts.part))

\* the module_subject
ModuleSubject(namespace, proj) == InNamespace(namespace, Titlecase(proj.name.s))

\* _add_module: the triples it adds, or the exception of line 153
AddModule(namespace, proj) ==
    LET module_subject == ModuleSubject(namespace, proj)
    IN  IF proj.license = PyNone THEN [exc |-> "AttributeError", graph |-> {}]
        ELSE [exc |-> "",
              graph |->
                Add(module_subject, RDF("type"), OKH("Module"))
                \cup Add(module_subject, RDFS("label"), proj.name)
                \cup Add(module_subject, OKH("versionOf"), proj.repo)
                \cup Add(module_subject, OKH("repo"), proj.repo)
                \cup Add(module_subject, OKH("dataSource"), proj.meta.source)
                \cup Add(module_subject, OKH("repoHost"), proj.meta.host)
                \cup Add(module_subject, OKH("version"), proj.version)
                \cup Add(module_subject, OKH("release"), PyNone)
                \cup (IF IsSpdx(proj.license)
                      THEN Add(module_subject, OKH("spdxLicense"), proj.license)
                      ELSE Add(module_subject, OKH("alternativeLicense"), proj.license))
                \cup Add(module_subject, OKH("licensor"), proj.licensor)
                \cup Add(module_subject, OKH("organization"), proj.organization)
                \cup Add(module_subject, OKH("documentationLanguage"),
                         proj.documentation_language)
                \cup Add(module_subject, OKH("function"), proj.function)
                \cup Add(module_subject, OKH("cpcPatentClass"), proj.cpc_patent_class)
                \cup Add(module_subject, OKH("tsdc"), proj.tsdc)
                \cup Add(module_subject, OKH("outerDimensionMM"), proj.outer_dimensions_mm)]

\* _add_info_file and the link from the module that follows it in _make_graph
AddInfoFile(namespace, proj, file, entityname, rdftype, link) ==
    IF file = PyNone THEN {}
    ELSE LET subject == InNamespace(namespace, entityname)
         IN  Add(subject, RDF("type"), OKH(rdftype))
             \cup Add(subject, RDFS("label"),
                      PyStr(entityname \o RdfTexts.of \o proj.name.s \o RdfTexts.v \o proj.version.s))
             \cup AddFile(subject, file)
             \cup Add(ModuleSubject(namespace, proj), OKH(link), subject)

\* _make_graph
MakeGraph(proj) ==
    LET namespace == MakeProjectNamespace(proj)
        module == AddModule(namespace, proj)
    IN  IF module.exc # "" THEN [result |-> Raise(module.exc), graph |-> {}]
        ELSE [result |-> Return(PyNone),
              graph |->
                module.graph
                \cup AddInfoFile(namespace, proj, proj.readme, RdfTexts.readme, "Readme", "hasReadme")
                \cup AddInfoFile(namespace, proj, proj.manifest_file, RdfTexts.manifest_file,
                                 "ManifestFile", "hasBoM")
                \cup (IF proj.manifest_file = PyNone THEN {}
                      ELSE Add(InNamespace(namespace, RdfTexts.manifest_file), OKH("okhv"), proj.okhv))
                \cup AddInfoFile(namespace, proj, proj.image, RdfTexts.image, "Image", "hasImage")
                \cup AddInfoFile(namespace, proj, proj.bom, RdfTexts.bom, "BoM", "hasBoM")
                \cup AddInfoFile(namespace, proj, proj.manufacturing_instructions,
                                 RdfTexts.manufacturing_instructions, "ManufacturingInstructions",
                                 "hasBoM")
                \cup AddInfoFile(namespace, proj, proj.user_manual, RdfTexts.user_manual,
                                 "UserManual", "hasBoM")
                \cup UNION {AddOnePart(namespace, proj, i) : i \in 1..Len(proj.part)}
                \cup UNION {Add(ModuleSubject(namespace, proj), OKH("hasComponent"),
                                PartSubject(namespace, proj, i)) : i \in 1..Len(proj.part)}]

\* "Case", the name of a part; "Custom", a license that is no SPDX identifier
CaseText == <<"C","a","s","e">>
CustomText == <<"C","u","s","t","o","m">>
CadUrl == <<"h","t","t","p","s",":","/","/","x",".","o","r","g","/","a",".","s","t","l">>

\* the files of the sample Projects: with both URLs, and with neither
LinkedFile == PyFile(PyStr(CadUrl), PyStr(CadUrl), PyStr(<<"s","t","l">>))
UnlinkedFile == PyFile(PyNone, PyNone, PyStr(<<"s","t","e","p">>))

\* krawl.project.Part, as far as the serializer reads it
RdfPart(name, license, licensor, source, export, image) ==
    [name |-> name, license |-> license, licensor |-> licensor, material |-> PyNone,
     manufacturing_process |-> PyNone, outer_dimensions_mm |-> PyNone, tsdc |-> PyNone,
     source |-> source, export |-> export, image |-> image]

\* the values of project.part
PartLists ==
    {<<>>,
     <<RdfPart(PyStr(CaseText), PyNone, PyNone, UnlinkedFile, <<LinkedFile>>, PyNone)>>,
     <<RdfPart(PyStr(CaseText), PyLicense(CustomText), PyStr(SampleParty), LinkedFile,
               <<>>, PyNone),
       RdfPart(PyStr(SampleName), PyLicense(LICENSE_MAPPING[CernLabel]), PyNone, PyNone,
               <<UnlinkedFile, LinkedFile>>, LinkedFile)>>}

\* krawl.project.Project, as far as the serializer reads it: the fields normalize
\* sets, the others None (part: the empty list) unless given
RdfProject(license, licensor, organization, function, cpc, readme, part) ==
    [meta |-> [source |-> PyStr(SampleFetcher), host |-> PyStr(SampleFetcher)],
     name |-> PyStr(SampleName),
     repo |-> PyStr(RegistryUrlPrefix \o Lower(SampleUid) \o HtmlSuffix),
     version |-> PyStr(DefaultVersion),
     license |-> license,
     licensor |-> licensor,
     organization |-> organization,
     documentation_language |-> PyStr(<<"e","n">>),
     function |-> function,
     cpc_patent_class |-> cpc,
     tsdc |-> PyNone,
     outer_dimensions_mm |-> PyNone,
     okhv |-> PyNone,
     readme |-> readme,
     manifest_file |-> PyNone,
     image |-> PyNone,
     bom |-> PyNone,
     manufacturing_instructions |-> PyNone,
     user_manual |-> PyNone,
     part |-> part]

MakeGraphCall ==
    /\ pc = "call"
    /\ LET out == MakeGraph(project)
       IN  result' = out.result /\ graph' = out.graph
    /\ pc' = "done"
    /\ UNCHANGED <<partsVars, getKeyVars, raw, desVars, project, storageVars, limiterVars>>

InitRdf ==
    /\ pc = "call"
    /\ \E license \in {PyNone, PyLicense(LICENSE_MAPPING[CernLabel]), PyLicense(CustomText)},
          licensor \in {PyNone, PyStr(SampleParty)},
          organization \in {PyNone, PyStr(SampleParty)},
          function \in {PyNone, PyStr(<<>>), PyStr(<<"H","i">>)},
          cpc \in {PyNone, PyStr(<<"H">>)},
          readme \in {PyNone, LinkedFile, UnlinkedFile},
          part \in PartLists :
          project = RdfProject(license, licensor, organization, function, cpc, readme, part)
    /\ graph = {}
    /\ result = NoResult
    /\ raw = PyNone
    /\ PartsIdle /\ GetKeyIdle /\ DeserializeIdle /\ StorageIdle /\ LimiterIdle

NextRdf == MakeGraphCall

SpecRdf == InitRdf /\ [][NextRdf]_vars

(***************************************************************************)
(* C13.  For every Project whose optional fields, license among them, are  *)
(* None or set, _make_graph returns without an exception, and the graph    *)
(* holds no triple for a field that is None: none with a None object, and  *)
(* none for the predicate of a None field of the module.                   *)
(***************************************************************************)
\* the predicate under which each optional field of the module is written
ModulePredicates ==
    [licensor |-> "licensor", organization |-> "organization", function |-> "function",
     cpc_patent_class |-> "cpcPatentClass", tsdc |-> "tsdc",
     outer_dimensions_mm |-> "outerDimensionMM"]

\* the graph has a triple of the module with this predicate
ModuleHas(predicate) ==
    \E tr \in graph :
        /\ tr.s = URIRef(project.repo.s \o <<"/">> \o project.version.s \o <<"/">>
                         \o <<"O","l","e","d","P","m","o","d">>)
        /\ tr.p = OKH(predicate)

C13_NullFieldsOmitted ==
    CallDone =>
        /\ result.kind = "return"
        /\ \A tr \in graph : tr.o # Literal(PyNone)
        /\ \A f \in DOMAIN ModulePredicates :
              project[f] = PyNone => ~ModuleHas(ModulePredicates[f])
        /\ project.license = PyNone =>
              ~ModuleHas("spdxLicense") /\ ~ModuleHas("alternativeLicense")

(***************************************************************************)
(* The fetcher state storage                                               *)
(* (src/krawl/storage/fetcher_state_storage_file.py).  `disk` maps the     *)
(* path of each file that exists to its text.  A JSON text is the tree of  *)
(* JSON values it writes down.                                             *)
(***************************************************************************)
Fetchers == {SampleFetcher, <<"g","i","t","h","u","b",".","c","o","m">>}

\* a JSON value: null, true, false, a number, a string, an array or an object
Json(j, n, str, a, o) == [j |-> j, n |-> n, s |-> str, a |-> a, o |-> o]

RECURSIVE JsonDumps(_)
\* json.dumps, for values json can encode
JsonDumps(v) ==
    CASE v.t = "NoneType" -> Json("null", 0, <<>>, <<>>, <<>>)
      [] v.t = "bool"     -> Json(IF v.n # 0 THEN "true" ELSE "false", 0, <<>>, <<>>, <<>>)
      [] v.t = "int"      -> Json("number", v.n, <<>>, <<>>, <<>>)
      [] v.t = "str"      -> Json("string", 0, v.s, <<>>, <<>>)
      [] v.t = "list"     -> Json("array", 0, <<>>,
                                  [i \in 1..Len(v.l) |-> JsonDumps(v.l[i])], <<>>)
      [] v.t = "dict"     -> Json("object", 0, <<>>, <<>>,
                                  [k \in DOMAIN v.d |-> JsonDumps(v.d[k])])

RECURSIVE JsonParse(_)
\* json.loads, of a text json.dumps wrote
JsonParse(text) ==
    CASE text.j = "null"   -> PyNone
      [] text.j = "true"   -> PyBool(TRUE)
      [] text.j = "false"  -> PyBool(FALSE)
      [] text.j = "number" -> PyInt(text.n)
      [] text.j = "string" -> PyStr(text.s)
      [] text.j = "array"  -> PyList([i \in 1..Len(text.a) |-> JsonParse(text.a[i])])
      [] text.j = "object" -> PyDict([k \in DOMAIN text.o |-> JsonParse(text.o[k])])

\* _get_path, all fetchers sharing one file
GetPath_Shared(fetcher) == [dir |-> "__fetcher__", name |-> <<".","j","s","o","n">>]

\* _get_path: base_path / "__fetcher__" / (fetcher + ".json")
GetPath(fetcher) == [dir |-> "__fetcher__", name |-> fetcher \o <<".","j","s","o","n">>]

\* path.exists()
Exists(d, path) == path \in DOMAIN d

\* load
LoadResult(d, fetcher) ==
    LET path == GetPath(fetcher)
    IN  IF ~Exists(d, path) THEN Return(PyDict(<<>>)) ELSE Return(JsonParse(d[path]))

\* store: the disk it leaves
StoreDisk(d, fetcher, state) ==
    LET path == GetPath(fetcher)
        serialized_ == JsonDumps(state)
    IN  [q \in DOMAIN d \cup {path} |-> IF q = path THEN serialized_ ELSE d[q]]

\* delete: the disk it leaves
DeleteDisk(d, fetcher) ==
    LET path == GetPath(fetcher)
    IN  IF ~Exists(d, path) THEN d ELSE [q \in DOMAIN d \ {path} |-> d[q]]

\* delete: the value it returns
DeleteResult(d, fetcher) == Return(PyBool(Exists(d, GetPath(fetcher))))

\* the states the fetchers store
FetcherStates ==
    {PyDict(<<>>),
     PyDict([cursor |-> PyInt(5), done |-> PyBool(FALSE)]),
     PyDict([cursor |-> PyNone, seen |-> PyList(<<PyStr(SampleUid)>>)])}

\* the call, and the last call before it
Called(name, fetcher, state) ==
    <<[name |-> name, fetcher |-> fetcher, state |-> state]>>
        \o (IF Len(op) = 0 THEN <<>> ELSE <<op[1]>>)

Load ==
    \E fetcher \in Fetchers :
        /\ pc = "ready"
        /\ result' = LoadResult(disk, fetcher)
        /\ op' = Called("load", fetcher, PyNone)
        /\ UNCHANGED <<pc, partsVars, getKeyVars, raw, desVars, rdfVars, disk, stored,
                       limiterVars>>

Store ==
    \E fetcher \in Fetchers, state \in FetcherStates :
        /\ pc = "ready"
        /\ disk' = StoreDisk(disk, fetcher, state)
        /\ result' = Return(PyNone)
        /\ stored' = [stored EXCEPT ![fetcher] = state]
        /\ op' = Called("store", fetcher, state)
        /\ UNCHANGED <<pc, partsVars, getKeyVars, raw, desVars, rdfVars, limiterVars>>

Delete ==
    \E fetcher \in Fetchers :
        /\ pc = "ready"
        /\ disk' = DeleteDisk(disk, fetcher)
        /\ result' = DeleteResult(disk, fetcher)
        /\ stored' = [stored EXCEPT ![fetcher] = Absent]
        /\ op' = Called("delete", fetcher, PyNone)
        /\ UNCHANGED <<pc, partsVars, getKeyVars, raw, desVars, rdfVars, limiterVars>>

InitStorage ==
    /\ pc = "ready"
    /\ disk = <<>>
    /\ stored = [fetcher \in Fetchers |-> Absent]
    /\ op = <<>>
    /\ result = NoResult
    /\ raw = PyNone
    /\ PartsIdle /\ GetKeyIdle /\ DeserializeIdle /\ RdfIdle /\ LimiterIdle

NextStorage == Load \/ Store \/ Delete

SpecStorage == InitStorage /\ [][NextStorage]_vars

(***************************************************************************)
(* C14.  In every step of any sequence of store, delete and load calls     *)
(* over the fetchers: load(f) returns the state last stored for f since    *)
(* the last delete of f, or the empty dict when there is none; delete(f)   *)
(* returns True exactly when there is such a state, and otherwise returns  *)
(* False and leaves the disk as it was (so does a delete that follows a    *)
(* delete); and what load would return for any other fetcher is the same   *)
(* before and after the call.                                              *)
(***************************************************************************)
\* `stored` is the history the claim speaks of: per fetcher, the state of the
\* last store since the last delete, Absent when there is none
C14_StorageContract ==
    [][LET f == op'[1].fetcher
       IN  /\ op'[1].name = "load" =>
                 result' = Return(IF stored[f] = Absent THEN PyDict(<<>>) ELSE stored[f])
           /\ op'[1].name = "delete" =>
                 /\ result' = Return(PyBool(stored[f] # Absent))
                 /\ stored[f] = Absent => disk' = disk
           /\ \A g \in Fetchers \ {f} :
                 LoadResult(disk', g) = LoadResult(disk, g)]_vars

\* a delete right after a delete of the same fetcher, while the other fetcher
\* keeps its state
C14_Witness ==
    /\ Len(op) = 2
    /\ op[1].name = "delete" /\ op[2].name = "delete" /\ op[1].fetcher = op[2].fetcher
    /\ result = Return(PyBool(FALSE))
    /\ \E g \in Fetchers \ {op[1].fetcher} :
          /\ stored[g] # Absent
          /\ LoadResult(disk, g) = Return(stored[g])

(***************************************************************************)
(* Percent-encoding, as the claims about Project.version understand it     *)
(***************************************************************************)
\* the characters a URL path may hold as they are
Unreserved ==
    {LowerLetters[i] : i \in 1..26} \cup {UpperLetters[i] : i \in 1..26}
        \cup {"0","1","2","3","4","5","6","7","8","9"} \cup {"_", ".", "-", "~", "/"}

HexDigits == {"0","1","2","3","4","5","6","7","8","9","A","B","C","D","E","F"}

\* the two hexadecimal digits of the ASCII code of a character
HexOf(c) ==
    CASE c = " " -> <<"2","0">>
      [] c = "%" -> <<"2","5">>
      [] c = "+" -> <<"2","B">>

RECURSIVE Encodes(_, _, _, _)
\* enc[i..] is the percent-encoding of str[j..]
Encodes(enc, i, str, j) ==
    IF j > Len(str) THEN i > Len(enc)
    ELSE IF str[j] \in Unreserved
    THEN i <= Len(enc) /\ enc[i] = str[j] /\ Encodes(enc, i + 1, str, j + 1)
    ELSE /\ i + 2 <= Len(enc)
         /\ <<enc[i], enc[i + 1], enc[i + 2]>> = <<"%">> \o HexOf(str[j])
         /\ Encodes(enc, i + 3, str, j + 1)

\* every character is unreserved or opens a %XX
UrlSafe(str) ==
    \A i \in 1..Len(str) :
        \/ str[i] \in Unreserved
        \/ /\ i >= 2 /\ str[i - 1] = "%" /\ str[i] \in HexDigits
        \/ /\ i >= 3 /\ str[i - 2] = "%" /\ str[i] \in HexDigits
        \/ /\ str[i] = "%" /\ i + 2 <= Len(str)
           /\ str[i + 1] \in HexDigits /\ str[i + 2] \in HexDigits

\* normalize returned a Project
Normalized == CallDone /\ result.kind = "return"

NonEmptyUrlSafe(v) == v.t = "str" /\ Len(v.s) > 0 /\ UrlSafe(v.s)

(***************************************************************************)
(* C15, as stated.  The version of a normalized Project is a non-empty     *)
(* URL-safe string: "0.1.0" when the record has no projectVersion, and the *)
(* percent-encoding of projectVersion whenever the record has one.         *)
(***************************************************************************)
C15_VersionEncoded ==
    Normalized =>
        /\ NonEmptyUrlSafe(result.project.version)
        /\ "projectVersion" \notin DOMAIN raw.d =>
              result.project.version = PyStr(<<"0",".","1",".","0">>)
        /\ "projectVersion" \in DOMAIN raw.d =>
              Encodes(result.project.version.s, 1, raw.d["projectVersion"].s, 1)

(***************************************************************************)
(* C15, amended.  The version of a normalized Project is a non-empty       *)
(* URL-safe string: "0.1.0" when the record has no projectVersion or an    *)
(* empty one, and the percent-encoding of projectVersion when that is a    *)
(* non-empty string.                                                       *)
(***************************************************************************)
C15_VersionEncodedOrDefault ==
    Normalized =>
        /\ NonEmptyUrlSafe(result.project.version)
        /\ FieldOrNone(raw, "projectVersion") \in {PyNone, PyStr(<<>>)} =>
              result.project.version = PyStr(<<"0",".","1",".","0">>)
        /\ (FieldOrNone(raw, "projectVersion").t = "str"
                /\ Len(FieldOrNone(raw, "projectVersion").s) > 0) =>
              Encodes(result.project.version.s, 1, raw.d["projectVersion"].s, 1)

\* a Project whose version is the encoding of "v 1+"
C15_Witness ==
    /\ Normalized
    /\ FieldOrNone(raw, "projectVersion") = PyStr(<<"v"," ","1","+">>)
    /\ result.project.version = PyStr(<<"v","%","2","0","1","%","2","B">>)

(***************************************************************************)
(* C16.  The documentation_language of a normalized Project is never None  *)
(* and is a two-letter code; it is "en" when the description is absent or  *)
(* empty (and when detection fails or reports "unknown").                  *)
(***************************************************************************)
\* two lower-case letters
IsTwoLetterCode(v) ==
    /\ v.t = "str"
    /\ Len(v.s) = 2
    /\ \A i \in 1..2 : \E j \in 1..26 : v.s[i] = LowerLetters[j]

C16_LanguageTwoLetterCode ==
    Normalized =>
        /\ result.project.documentation_language # PyNone
        /\ IsTwoLetterCode(result.project.documentation_language)
        /\ result.project.function = PyStr(<<>>) =>
              result.project.documentation_language = PyStr(<<"e","n">>)

(***************************************************************************)
(* The rate limiters (src/krawl/request/rate_limit.py).  Time is counted   *)
(* in whole seconds of a clock that never runs backwards; `limiter` holds  *)
(* the fields of one RateLimitNumRequests and one RateLimitFixedTimedelta. *)
(* A caller is inside at most one apply; update is called between applies. *)
(***************************************************************************)
\* RateLimitNumRequests.apply without its sleep
NumWait_NoWait(l, t) == 0

\* RateLimitNumRequests.apply: the seconds it sleeps, reading the clock at t
NumWait(l, t) ==
    IF l.num_requests <= 0
    THEN LET wait == l.reset_time - t IN IF wait > 0 THEN wait ELSE 0
    ELSE 0

\* RateLimitFixedTimedelta.apply: the seconds it sleeps, reading the clock at t
FixedWait(l, t) ==
    LET wait == l.timedelta - (t - l.last) IN IF wait > 0 THEN wait ELSE 0

\* apply, up to its return or its call of sleep
Apply(which, wait) ==
    /\ pc \in {"ready", "returned"}
    /\ IF wait > 0
       THEN /\ pc' = "sleeping"
            /\ call' = [which |-> which, called |-> now, wake |-> now + wait, returned |-> 0]
       ELSE /\ pc' = "returned"
            /\ call' = [which |-> which, called |-> now, wake |-> now, returned |-> now]
    /\ UNCHANGED <<partsVars, getKeyVars, raw, result, desVars, rdfVars, storageVars,
                   limiter, now>>

ApplyNumRequests == Apply("num_requests", NumWait(limiter, now))

ApplyFixedTimedelta == Apply("fixed_timedelta", FixedWait(limiter, now))

\* sleep(wait) returns, not before wait seconds have passed
Wake ==
    /\ pc = "sleeping"
    /\ now >= call.wake
    /\ pc' = "returned"
    /\ call' = [call EXCEPT !.returned = now]
    /\ UNCHANGED <<partsVars, getKeyVars, raw, result, desVars, rdfVars, storageVars,
                   limiter, now>>

\* RateLimitNumRequests.update
UpdateNumRequests ==
    \E num_requests \in 0..MaxQuota, reset_time \in 0..MaxTime :
        /\ pc \in {"ready", "returned"}
        /\ limiter' = [limiter EXCEPT !.num_requests = num_requests,
                                      !.reset_time = reset_time]
        /\ pc' = "ready"
        /\ call' = <<>>
        /\ UNCHANGED <<partsVars, getKeyVars, raw, result, desVars, rdfVars, storageVars,
                       now>>

\* RateLimitFixedTimedelta.update; the interval ends before the clock stops
UpdateFixedTimedelta ==
    /\ pc \in {"ready", "returned"}
    /\ now + limiter.timedelta <= MaxTime
    /\ limiter' = [limiter EXCEPT !.last = now]
    /\ pc' = "ready"
    /\ call' = <<>>
    /\ UNCHANGED <<partsVars, getKeyVars, raw, result, desVars, rdfVars, storageVars, now>>

\* a second passes
Tick ==
    /\ now < MaxTime
    /\ now' = now + 1
    /\ UNCHANGED <<pc, partsVars, getKeyVars, raw, result, desVars, rdfVars, storageVars,
                   limiter, call>>

\* the two __init__, run at second 0
InitLimiter ==
    /\ pc = "ready"
    /\ now = 0
    /\ \E num_requests \in 0..MaxQuota, reset_time \in 0..MaxTime,
          seconds \in 0..MaxInterval :
          limiter = [num_requests |-> num_requests, reset_time |-> reset_time,
                     timedelta |-> seconds, last |-> 0]
    /\ call = <<>>
    /\ result = NoResult
    /\ raw = PyNone
    /\ PartsIdle /\ GetKeyIdle /\ DeserializeIdle /\ RdfIdle /\ StorageIdle

NextLimiter ==
    \/ ApplyNumRequests
    \/ ApplyFixedTimedelta
    \/ Wake
    \/ UpdateNumRequests
    \/ UpdateFixedTimedelta
    \/ Tick

\* time passes, and a sleep whose time is over returns
SpecLimiter ==
    InitLimiter /\ [][NextLimiter]_vars /\ WF_vars(Tick) /\ WF_vars(Wake)

(***************************************************************************)
(* C17.  RateLimitNumRequests.apply returns at once when the recorded      *)
(* quota is positive and otherwise not before the recorded reset time;     *)
(* RateLimitFixedTimedelta.apply returns not before the fixed interval has *)
(* passed since the last update (or the construction); no step of apply    *)
(* changes quota, reset time, interval or last-call time; and every apply  *)
(* that sleeps returns in the end.                                         *)
(***************************************************************************)
Returned(which) == pc = "returned" /\ call.which = which

C17_ReturnTimes ==
    /\ (Returned("num_requests") /\ limiter.num_requests > 0) =>
          call.returned = call.called
    /\ (Returned("num_requests") /\ limiter.num_requests <= 0) =>
          call.returned >= limiter.reset_time
    /\ Returned("fixed_timedelta") =>
          call.returned >= limiter.last + limiter.timedelta

C17_BlocksUntilPermitted ==
    /\ []C17_ReturnTimes
    /\ [][pc' \in {"sleeping", "returned"} => limiter' = limiter]_vars
    /\ (pc = "sleeping") ~> (pc = "returned")

\* an apply that slept for an exhausted quota and returned at the reset time
C17_Witness ==
    /\ Returned("num_requests")
    /\ limiter.num_requests = 0
    /\ call.returned > call.called
    /\ call.returned = limiter.reset_time

====
